---- MODULE Spec2Model ----
(***************************************************************************)
(* State-machine model of BasicWorld (3d_city_walker): the procedural city *)
(* of createObjects, the on-foot / vehicle locomotion of                   *)
(* updateCharacterMovement / updateCarMovement, the mode switch            *)
(* enterOrExitCar, the orbit camera and wrapWorld.                         *)
(*                                                                         *)
(* Numbers are fixed point.  Lengths are millimetres, times milliseconds,  *)
(* speeds millimetres per second, angles milliradians and the values of    *)
(* sin/cos thousandths.  JavaScript doubles are exact on every quantity    *)
(* the model keeps as an integer; where a product has to be scaled back    *)
(* the model rounds to the nearest unit (RoundDiv).                        *)
(***************************************************************************)
EXTENDS Integers, Sequences, FiniteSets, TLC

(***************************************************************************)
(* Bounds of the model (not program constants).                            *)
(***************************************************************************)
\* number of animation frames explored in one run
MaxTicks == 2
\* number of pointer-move events explored in one run
MaxMouseMoves == 1
\* resolution of Math.random(): a draw is k/RandMod, k in 0..RandMod-1
RandMod == 8
\* number of seeds of the random source that Init chooses from
NumSeeds == 1
\* resolution of Math.random() for the draws that the generation runs enumerate:
\* such a draw is 0 or (GenRandMod - 1)/GenRandMod
GenRandMod == 24

(***************************************************************************)
(* Program constants, in model units.                                      *)
(***************************************************************************)
Pi == 3142
moveSpeed == 4
mouseSensitivity == 2
cameraOrbitRadius == 7000
gravity == 20
jumpStrength == 8000
characterFeetY == 0
characterHeight == 1800
carAcceleration == 12
carDeceleration == 15
carMaxSpeed == 25000
carReverseMaxSpeed == -8000
carWheelBase == 2800
enterCarDistance == 3000
carExitOffset == 1500
blockSize == 20000
streetWidth == 6000
citySize == 10
buildingPadding == 2000
numCoinsToSpawn == 20
coinCollectionDistance == 2000
cycleDurationSeconds == 120000
\* citySize of RaytracingWorld; its blockSize and streetWidth are BasicWorld's
raytracingCitySize == 12

carMaxSteeringAngleRad == Pi \div 7
cityOffset == (citySize * (blockSize + streetWidth) - streetWidth) \div 2
chunkSize == citySize * (blockSize + streetWidth)
raytracingCityOffset == (raytracingCitySize * (blockSize + streetWidth) - streetWidth) \div 2

(***************************************************************************)
(* Arithmetic helpers.                                                     *)
(***************************************************************************)
Abs(a) == IF a < 0 THEN -a ELSE a
Min(a, b) == IF a < b THEN a ELSE b
Max(a, b) == IF a > b THEN a ELSE b

\* a / b rounded to the nearest integer, halves away from zero (b > 0)
RoundDiv(a, b) == IF a >= 0 THEN (2 * a + b) \div (2 * b)
                  ELSE -((2 * (-a) + b) \div (2 * b))

\* a * b / 1000 rounded, formed without the full product
MulDiv1000(a, b) == (a \div 1000) * b + RoundDiv((a % 1000) * b, 1000)

TwoPi == 2 * Pi
HalfPi == Pi \div 2

\* sin on [0, Pi] in thousandths (Bhaskara's rational approximation)
SinHalfTurn(x) ==
    LET p == x * (Pi - x)
    IN  RoundDiv(16 * p, (5 * Pi * Pi - 4 * p) \div 1000)

\* Math.sin and Math.cos, argument in milliradians, value in thousandths
Sin(a) == LET x == a % TwoPi
          IN  IF x <= Pi THEN SinHalfTurn(x) ELSE -SinHalfTurn(x - Pi)
Cos(a) == Sin(a + HalfPi)

Vec(x, y, z) == [x |-> x, y |-> y, z |-> z]

\* Vector3.distanceTo(q) < d, without forming squares of far-apart points
DistanceLess(p, q, d) ==
    /\ Abs(p.x - q.x) < d
    /\ Abs(p.y - q.y) < d
    /\ Abs(p.z - q.z) < d
    /\ (p.x - q.x) * (p.x - q.x) + (p.y - q.y) * (p.y - q.y)
         + (p.z - q.z) * (p.z - q.z) < d * d

(***************************************************************************)
(* Math.random().  The n-th call site of the generation pass draws          *)
(* Rand(seed, n)/RandMod; the seed is chosen by Init.                       *)
(***************************************************************************)
Seeds == 1 .. NumSeeds
Rand(seed, n) == (seed * 3 + n * 5 + (n \div 3) + (n \div 7) * 2 + (n \div 13)) % RandMod

\* Math.random() < num/den
RandBelow(r, num, den) == r * den < num * RandMod

(***************************************************************************)
(* createObjects: streets, street lights, buildings and their colliders.   *)
(***************************************************************************)
Obj(kind, x, z) == [kind |-> kind, x |-> x, z |-> z]

LightSite(i, j, k) == (i * citySize + j) * 4 + k

StreetHorzX(i) == i * (blockSize + streetWidth) - cityOffset + blockSize \div 2
StreetHorzZ(j) == j * (blockSize + streetWidth) - cityOffset - streetWidth \div 2
StreetVertX(j) == j * (blockSize + streetWidth) - cityOffset - streetWidth \div 2
StreetVertZ(i) == i * (blockSize + streetWidth) - cityOffset + blockSize \div 2

\* the scene children added by one iteration (i, j) of the street loop
StreetCell(seed, i, j) ==
    LET hx == StreetHorzX(i)
        hz == StreetHorzZ(j)
        vx == StreetVertX(j)
        vz == StreetVertZ(i)
        horz == IF j < citySize
                THEN <<Obj("streetHorz", hx, hz)>>
                     \o (IF RandBelow(Rand(seed, LightSite(i, j, 0)), 8, 10)
                         THEN <<Obj("lantern", hx - blockSize \div 2 + 1000, hz - streetWidth \div 2 - 500)>>
                         ELSE <<>>)
                     \o (IF RandBelow(Rand(seed, LightSite(i, j, 1)), 8, 10)
                         THEN <<Obj("lantern", hx + blockSize \div 2 - 1000, hz - streetWidth \div 2 - 500)>>
                         ELSE <<>>)
                ELSE <<>>
        vert == <<Obj("streetVert", vx, vz)>>
                \o (IF j < citySize /\ RandBelow(Rand(seed, LightSite(i, j, 2)), 8, 10)
                    THEN <<Obj("lantern", vx - streetWidth \div 2 - 500, vz - blockSize \div 2 + 1000)>>
                    ELSE <<>>)
                \o (IF j < citySize /\ RandBelow(Rand(seed, LightSite(i, j, 3)), 8, 10)
                    THEN <<Obj("lantern", vx - streetWidth \div 2 - 500, vz + blockSize \div 2 - 1000)>>
                    ELSE <<>>)
    IN  horz \o vert

\* iterations lo..hi of the street loop (i outer, j inner), in program order
RECURSIVE StreetLoop(_, _, _)
StreetLoop(seed, lo, hi) ==
    IF lo = hi THEN StreetCell(seed, lo \div (citySize + 1), lo % (citySize + 1))
    ELSE LET mid == (lo + hi) \div 2
         IN  StreetLoop(seed, lo, mid) \o StreetLoop(seed, mid + 1, hi)

BuildingSite(i, j, k, f) == 4 * citySize * citySize + (i * citySize + j) * 13 + 1 + 6 * k + f

\* const numBuildingsInBlock = Math.floor(Math.random() * 2) + 1
NumBuildingsInBlock(seed, i, j) ==
    ((2 * Rand(seed, BuildingSite(i, j, 0, -1))) \div RandMod) + 1

\* Math.random() < num/dn for the draw r/den
DrawBelow(r, den, num, dn) == r * dn < num * den

\* the names of the draws that shape one building of BasicWorld
BuildingDraws == {"height", "width", "depth", "x", "z"}

\* one building of the block centred at (blockCenterX, blockCenterZ), for the
\* draws r[name]/den: its mesh position and its collider.  The bounds of the
\* collider are formed exactly, over the denominator 2 * den * den, and rounded
\* once.
BuildingDrawn(blockCenterX, blockCenterZ, r, den) ==
    LET span == (blockSize * 10) \div 25 - buildingPadding
        height == RoundDiv(r.height * 15000, den) + 8000
        \* width * den, depth * den
        widthN == r.width * span + 5000 * den
        depthN == r.depth * span + 5000 * den
        \* (buildingX - blockCenterX) * 2 * den * den, likewise for z
        offsetXN == (2 * r.x - den) * ((blockSize - buildingPadding * 2) * den - widthN)
        offsetZN == (2 * r.z - den) * ((blockSize - buildingPadding * 2) * den - depthN)
        At(center, n) == center + RoundDiv(n, 2 * den * den)
    IN  [mesh |-> Obj("building", At(blockCenterX, offsetXN), At(blockCenterZ, offsetZN)),
         collider |-> [min |-> Vec(At(blockCenterX, offsetXN - den * widthN), 0,
                                   At(blockCenterZ, offsetZN - den * depthN)),
                       max |-> Vec(At(blockCenterX, offsetXN + den * widthN), height,
                                   At(blockCenterZ, offsetZN + den * depthN))]]

\* building k of block (i, j), with the draws of the seed
Building(seed, i, j, k) ==
    BuildingDrawn(i * (blockSize + streetWidth) - cityOffset + blockSize \div 2,
                  j * (blockSize + streetWidth) - cityOffset + blockSize \div 2,
                  [height |-> Rand(seed, BuildingSite(i, j, k, 0)),
                   width |-> Rand(seed, BuildingSite(i, j, k, 1)),
                   depth |-> Rand(seed, BuildingSite(i, j, k, 2)),
                   x |-> Rand(seed, BuildingSite(i, j, k, 4)),
                   z |-> Rand(seed, BuildingSite(i, j, k, 5))],
                  RandMod)

\* iterations lo..hi of the block loop (i outer, j inner), in program order
RECURSIVE BuildingLoop(_, _, _)
BuildingLoop(seed, lo, hi) ==
    IF lo = hi
    THEN LET i == lo \div citySize
             j == lo % citySize
         IN  [k \in 1 .. NumBuildingsInBlock(seed, i, j) |-> Building(seed, i, j, k - 1)]
    ELSE LET mid == (lo + hi) \div 2
         IN  BuildingLoop(seed, lo, mid) \o BuildingLoop(seed, mid + 1, hi)

(***************************************************************************)
(* RaytracingWorld.createObjects: one building and its collider.           *)
(***************************************************************************)
\* the names of the draws that shape one building of RaytracingWorld; the
\* upper segments of a stacked building draw their width, depth and height
\* anew, and the runs give them the values of the bottom segment's draws
RaytracingBuildingDraws == {"x", "z", "stacked", "segments", "width", "depth", "height"}

\* maxSegmentWidth (or Depth) of a stacked building in units of 1/(10 * den) mm,
\* for the draw r/den of every segment's width, and numSegments segments
RECURSIVE MaxSegment(_, _, _, _, _)
MaxSegment(base, r, den, s, numSegments) ==
    IF s = numSegments THEN 0
    ELSE LET segment == IF s = 0 THEN base
                        ELSE RoundDiv(base * (2 * r + 7 * den), 10 * den)
         IN  Max(Max(segment, 3000 * 10 * den),
                 MaxSegment(segment, r, den, s + 1, numSegments))

\* one building of the block centred at (blockCenterX, blockCenterZ), for the
\* draws r[name]/den: its mesh position and its collider
RaytracingBuildingDrawn(blockCenterX, blockCenterZ, r, den) ==
    LET span == (blockSize * 10) \div 25 - buildingPadding
        plotRange == (blockSize * 3) \div 10
        \* (buildingPlotX - blockCenterX) * 2 * den, likewise for z
        plotXN == (2 * r.x - den) * plotRange
        plotZN == (2 * r.z - den) * plotRange
        mesh == Obj("building", blockCenterX + RoundDiv(plotXN, 2 * den),
                                blockCenterZ + RoundDiv(plotZN, 2 * den))
    IN  IF DrawBelow(r.stacked, den, 4, 10)
        THEN LET numSegments == IF DrawBelow(r.segments, den, 6, 10) THEN 2 ELSE 3
                 maxSegmentWidth == MaxSegment(2 * span * (r.width + 4 * den), r.width,
                                               den, 0, numSegments)
                 maxSegmentDepth == MaxSegment(2 * span * (r.depth + 4 * den), r.depth,
                                               den, 0, numSegments)
                 currentStackHeight ==
                     RoundDiv(r.height * 7000, den) + 6000
                     + (numSegments - 1) * (RoundDiv(r.height * 6000, den) + 4000)
                 At(center, n) == center + RoundDiv(n, 20 * den)
             IN  [mesh |-> mesh,
                  collider |->
                     [min |-> Vec(At(blockCenterX, 10 * plotXN - maxSegmentWidth), 0,
                                  At(blockCenterZ, 10 * plotZN - maxSegmentDepth)),
                      max |-> Vec(At(blockCenterX, 10 * plotXN + maxSegmentWidth),
                                  currentStackHeight,
                                  At(blockCenterZ, 10 * plotZN + maxSegmentDepth))]]
        ELSE LET height == RoundDiv(r.height * 15000, den) + 8000
                 widthN == r.width * span + 5000 * den
                 depthN == r.depth * span + 5000 * den
                 At(center, n) == center + RoundDiv(n, 2 * den)
             IN  [mesh |-> mesh,
                  collider |->
                     [min |-> Vec(At(blockCenterX, plotXN - widthN), 0,
                                  At(blockCenterZ, plotZN - depthN)),
                      max |-> Vec(At(blockCenterX, plotXN + widthN), height,
                                  At(blockCenterZ, plotZN + depthN))]]

(***************************************************************************)
(* createAndPlaceCoins.                                                    *)
(***************************************************************************)
CoinSite(c, attempt, f) == 4 * citySize * citySize + 13 * citySize * citySize
                           + ((c * 20 + attempt) * 5) + f

\* spawn point of the car: createCar
carSpawnX == (citySize \div 2) * (blockSize + streetWidth) - cityOffset - streetWidth \div 2
carSpawnZ == blockSize \div 10

\* the candidate position drawn by one attempt of the placement loop
CoinCandidate(seed, c, attempt) ==
    LET R(f) == Rand(seed, CoinSite(c, attempt, f))
        randomI == (R(0) * citySize) \div RandMod
        randomJ == (R(1) * citySize) \div RandMod
        sidewalkOffset == streetWidth \div 2 + 500 + 500
        along == RoundDiv(R(3) * blockSize, RandMod)
        side == IF RandBelow(R(4), 1, 2) THEN 1 ELSE -1
        baseX == randomI * (blockSize + streetWidth) - cityOffset
        baseZ == randomJ * (blockSize + streetWidth) - cityOffset
    IN  IF RandBelow(R(2), 1, 2)
        THEN Vec(baseX + along, 150, baseZ - sidewalkOffset * side)
        ELSE Vec(baseX - sidewalkOffset * side, 150, baseZ + along)

RECURSIVE PlaceCoin(_, _, _)
PlaceCoin(seed, c, attempt) ==
    IF attempt > 20 THEN Vec(0, 150, 0)
    ELSE LET coinPosition == CoinCandidate(seed, c, attempt)
         IN  IF DistanceLess(coinPosition, Vec(carSpawnX, 0, carSpawnZ), 5000)
             THEN PlaceCoin(seed, c, attempt + 1)
             ELSE coinPosition

(***************************************************************************)
(* State.                                                                   *)
(***************************************************************************)
VARIABLES
    character,              \* [position, visible] of this.character
    carModel,               \* [position, rotationY] of this.carModel
    cameraTarget,           \* "character" or "carModel"
    cameraTargetOffset,     \* Vector3
    cameraPosition,         \* this.camera.position
    cameraAzimuthAngle,
    cameraElevationAngle,
    isPointerLockActive,
    keysPressed,            \* the movement keys whose entry is true
    isJumping,
    velocityY,
    isInCar,
    carSpeed,
    carSteeringInput,
    buildingColliders,      \* sequence of Box3 [min, max]
    sceneChildren,          \* ground, street, lantern and building objects
    coins,                  \* sequence of [position, visible]
    collectedCoinsCount,
    respawnAllCoinsTimeout, \* TRUE while the respawn timer is pending
    respawnsCompleted,      \* history: the number of runs of respawnAllCoins
    currentTimeOfDaySeconds,
    generation,             \* position of createObjects in its block loop
    lighting,               \* sun, ambient and fog values, and the keyframe pair
                            \* and interpolation fraction that gave them
    loading,                \* the background loads that have not called back yet
    audio,                  \* [soundEffects, isPlaying, engineRate, footstepTimer,
                            \*  listenerAttached]
    animation,              \* [characterMixer, animations, currentAnimation]
    destroyed,              \* history: destroy() has been called
    lastUse,                \* history: the sounds, the mixer and the animation
                            \*          actions the last handler called a method of
    ticks,                  \* history: frames run so far
    mouseMoves,             \* history: pointer-move events so far
    lastWrap,               \* history: offset applied by wrapWorld in the last frame
    lastUpdate,             \* history: locomotion updates run by the last frame,
                            \*          whether its candidate was rejected, and its
                            \*          deltaTime
    toggleRun,              \* history: the current run of consecutive toggle presses
    walk                    \* history: the current uninterrupted walk along one axis

agentVars == <<character, carModel, isJumping, velocityY, carSpeed, carSteeringInput>>
modeVars == <<isInCar, cameraTarget, cameraTargetOffset>>
cameraVars == <<cameraPosition, cameraAzimuthAngle, cameraElevationAngle, isPointerLockActive>>
worldVars == <<buildingColliders, sceneChildren, coins, collectedCoinsCount,
               respawnAllCoinsTimeout, respawnsCompleted, currentTimeOfDaySeconds,
               generation, lighting>>
assetVars == <<loading, audio, animation>>
frameHistory == <<ticks, lastWrap, lastUpdate>>

vars == <<agentVars, modeVars, cameraVars, worldVars, assetVars, keysPressed,
          frameHistory, mouseMoves, toggleRun, walk, destroyed, lastUse>>

(***************************************************************************)
(* Inputs.                                                                  *)
(***************************************************************************)
\* keys read by the movement code; 'f' and ' ' are handled on keydown only
MovementKeys == {"w", "s", "a", "d"}

Pressed(k1, k2) == k1 \in keysPressed \/ k2 \in keysPressed

(***************************************************************************)
(* collides.                                                                *)
(***************************************************************************)
\* Box3.containsPoint: bounds are inclusive
ContainsPoint(box, p) ==
    ~ (\/ p.x < box.min.x \/ p.x > box.max.x
       \/ p.y < box.min.y \/ p.y > box.max.y
       \/ p.z < box.min.z \/ p.z > box.max.z)

CollidesIn(colliders, pos) == \E n \in DOMAIN colliders : ContainsPoint(colliders[n], pos)

collides(pos) == CollidesIn(buildingColliders, pos)

(***************************************************************************)
(* updateCameraOrbit.                                                       *)
(***************************************************************************)
\* the offset the camera uses for its height and its look-at point
EffectiveOffset(target, targetOffset) ==
    IF target = "carModel" THEN Vec(0, 1000, 0) ELSE targetOffset

OrbitPosition(targetPos, effectiveOffset, azimuth, elevation) ==
    Vec(targetPos.x - MulDiv1000(MulDiv1000(cameraOrbitRadius, Sin(azimuth)), Cos(elevation)),
        targetPos.y + MulDiv1000(cameraOrbitRadius, Sin(elevation)) + effectiveOffset.y,
        targetPos.z - MulDiv1000(MulDiv1000(cameraOrbitRadius, Cos(azimuth)), Cos(elevation)))

TargetPosition(target, char, car) ==
    IF target = "carModel" THEN car.position ELSE char.position

(***************************************************************************)
(* updateDayNightCycle.  Intensities are thousandths, colours are           *)
(* <<r, g, b>> in 0 .. 255, and the time of a keyframe is hundredths of the *)
(* cycle.                                                                   *)
(***************************************************************************)
Keyframes ==
    << [time |-> 0, sunIntensity |-> 100, sunColor |-> <<16, 32, 64>>,
        ambientIntensity |-> 100, ambientColor |-> <<5, 16, 21>>, fogColor |-> <<0, 5, 16>>],
       [time |-> 20, sunIntensity |-> 400, sunColor |-> <<128, 96, 160>>,
        ambientIntensity |-> 300, ambientColor |-> <<32, 32, 48>>, fogColor |-> <<16, 16, 32>>],
       [time |-> 25, sunIntensity |-> 1000, sunColor |-> <<255, 221, 170>>,
        ambientIntensity |-> 800, ambientColor |-> <<64, 64, 96>>, fogColor |-> <<135, 206, 235>>],
       [time |-> 30, sunIntensity |-> 1000, sunColor |-> <<255, 221, 170>>,
        ambientIntensity |-> 800, ambientColor |-> <<64, 64, 96>>, fogColor |-> <<135, 206, 235>>],
       [time |-> 70, sunIntensity |-> 600, sunColor |-> <<255, 140, 96>>,
        ambientIntensity |-> 500, ambientColor |-> <<48, 32, 32>>, fogColor |-> <<96, 64, 48>>],
       [time |-> 75, sunIntensity |-> 100, sunColor |-> <<16, 32, 64>>,
        ambientIntensity |-> 100, ambientColor |-> <<5, 16, 21>>, fogColor |-> <<0, 5, 16>>],
       [time |-> 100, sunIntensity |-> 100, sunColor |-> <<16, 32, 64>>,
        ambientIntensity |-> 100, ambientColor |-> <<5, 16, 21>>, fogColor |-> <<0, 5, 16>>] >>

\* the value of currentTimeOfDaySeconds at which the phase is keyframe i's time
KeyTime(i) == (Keyframes[i].time * cycleDurationSeconds) \div 100

\* faulty variant of AdvanceTimeOfDay: one cycle at most is taken off
AdvanceTimeOfDayOnce(time, deltaTime) ==
    IF time + deltaTime >= cycleDurationSeconds
    THEN time + deltaTime - cycleDurationSeconds
    ELSE time + deltaTime

\* (currentTimeOfDaySeconds + deltaTime) % cycleDurationSeconds
AdvanceTimeOfDay(time, deltaTime) == (time + deltaTime) % cycleDurationSeconds

\* faulty variant of Bracket: the loop tests phase <= keyframes[i].time
BracketInclusive(time) ==
    LET hits == {i \in 2 .. Len(Keyframes) : time <= KeyTime(i)}
    IN  IF hits = {} THEN 2 ELSE CHOOSE i \in hits : \A h \in hits : i <= h

\* the index of nextFrame: the first keyframe after keyframes[0] whose time is
\* above the phase, keyframes[1] if there is none; prevFrame is the one before
Bracket(time) ==
    LET hits == {i \in 2 .. Len(Keyframes) : time < KeyTime(i)}
    IN  IF hits = {} THEN 2 ELSE CHOOSE i \in hits : \A h \in hits : i <= h

\* value1 * (1 - t) + value2 * t for t = tNum / tDen
lerpScalar(value1, value2, tNum, tDen) ==
    RoundDiv(value1 * (tDen - tNum) + value2 * tNum, tDen)

\* Color.lerp: every channel moves by (color2 - color1) * t
lerpColor(color1, color2, tNum, tDen) ==
    [c \in 1 .. 3 |-> color1[c] + RoundDiv((color2[c] - color1[c]) * tNum, tDen)]

\* the lights and the fog for the phase time / cycleDurationSeconds
DayNightLighting(time) ==
    LET next == Bracket(time)
        prevFrame == Keyframes[next - 1]
        nextFrame == Keyframes[next]
        tNum == time - KeyTime(next - 1)
        tDen == KeyTime(next) - KeyTime(next - 1)
    IN  [prevFrame |-> next - 1,
         nextFrame |-> next,
         tNum |-> tNum,
         tDen |-> tDen,
         sunIntensity |-> lerpScalar(prevFrame.sunIntensity, nextFrame.sunIntensity,
                                     tNum, tDen),
         sunColor |-> lerpColor(prevFrame.sunColor, nextFrame.sunColor, tNum, tDen),
         ambientIntensity |-> lerpScalar(prevFrame.ambientIntensity,
                                         nextFrame.ambientIntensity, tNum, tDen),
         ambientColor |-> lerpColor(prevFrame.ambientColor, nextFrame.ambientColor,
                                    tNum, tDen),
         fogColor |-> lerpColor(prevFrame.fogColor, nextFrame.fogColor, tNum, tDen)]

\* the lights and the fog as init() creates them; no keyframe pair yet
InitialLighting ==
    [prevFrame |-> 0, nextFrame |-> 0, tNum |-> 0, tDen |-> 1,
     sunIntensity |-> 1000, sunColor |-> <<255, 221, 170>>,
     ambientIntensity |-> 800, ambientColor |-> <<64, 64, 96>>,
     fogColor |-> <<0, 16, 41>>]

(***************************************************************************)
(* Initial state: the state the constructor leaves.                         *)
(***************************************************************************)
InitialElevation == Pi \div 7

\* toggleRun outside a run of toggle presses: n presses so far in the run;
\* before1 / near1: isInCar, and whether the character stood within the enter
\* distance, just before the latest press; before2 / near2: the same for the
\* press before it
NoToggle == [n |-> 0, before1 |-> FALSE, near1 |-> FALSE,
             before2 |-> FALSE, near2 |-> FALSE]

\* walk outside a walk
NoWalk == [active |-> FALSE]

\* generation once the constructor has returned
GenerationDone == [phase |-> "done"]

(***************************************************************************)
(* Assets loaded in the background: the sounds of loadSoundAssets, and the  *)
(* character model of the variant that loads an animated character.         *)
(***************************************************************************)
SoundNames == {"footstep", "jump", "coin", "engine"}

\* the clips the mixer code asks for by name
Clips == {"Idle", "Walking"}

Loads == SoundNames \cup {"character"}

footstepInterval == 400

\* no sound is loaded; engineRate is the playback rate in thousandths
InitialAudio ==
    [soundEffects |-> {}, isPlaying |-> {}, engineRate |-> 1000,
     footstepTimer |-> 0, listenerAttached |-> TRUE]

NoAnimation == [characterMixer |-> FALSE, animations |-> {}, currentAnimation |-> "none"]

NoUse == [sounds |-> {}, mixer |-> FALSE, actions |-> {}]

\* faulty variant of Loaded: the sound is taken to be there
LoadedAlways(soundEffects, name) == TRUE

\* `this.soundEffects.get(name)` is truthy
Loaded(soundEffects, name) == name \in soundEffects

\* `if (sound && !sound.isPlaying) sound.play()`
PlayIfSilent(a, name) ==
    IF Loaded(a.soundEffects, name) THEN [a EXCEPT !.isPlaying = @ \cup {name}] ELSE a

\* `if (sound && sound.isPlaying) sound.stop()`
StopIfPlaying(a, name) ==
    IF Loaded(a.soundEffects, name) THEN [a EXCEPT !.isPlaying = @ \ {name}] ELSE a

\* the sounds a handler calls a method of or reads isPlaying of, out of those
\* whose `get` it reaches
Uses(soundEffects, reached) == {name \in reached : Loaded(soundEffects, name)}

\* updateCharacterMovement's footstep timer expires in this frame
FootstepDue(a, didMove, jumping, deltaTime) ==
    didMove /\ ~jumping /\ a.footstepTimer - deltaTime <= 0

\* updateCharacterMovement's footstep block
Footstep(a, didMove, jumping, deltaTime) ==
    IF didMove /\ ~jumping
    THEN IF FootstepDue(a, didMove, jumping, deltaTime)
         THEN [PlayIfSilent(a, "footstep") EXCEPT !.footstepTimer = footstepInterval]
         ELSE [a EXCEPT !.footstepTimer = @ - deltaTime]
    ELSE a

\* targetPlaybackRate of the engine sound, in thousandths
EngineRate(speed) ==
    IF Abs(speed) < 100 THEN 800
    ELSE 800 + RoundDiv(Abs(speed) * (1800 - 800), carMaxSpeed)

\* updateCarMovement's engine block; it runs in the car only
EngineUpdate(a, speed) ==
    IF Loaded(a.soundEffects, "engine")
    THEN [a EXCEPT !.isPlaying = @ \cup {"engine"}, !.engineRate = EngineRate(speed)]
    ELSE a

\* checkCoinCollection's sound block, run once per collected coin
CoinSound(a, collected) ==
    IF collected /\ Loaded(a.soundEffects, "coin")
    THEN [a EXCEPT !.isPlaying = @ \cup {"coin"}]
    ELSE a

DidMove ==
    \/ Pressed("w", "arrowup") \/ Pressed("s", "arrowdown")
    \/ Pressed("a", "arrowleft") \/ Pressed("d", "arrowright")

\* the audio state after the locomotion update of a frame, and the sounds whose
\* `get` the update reaches
LocomotionSound(deltaTime, speed) ==
    IF isInCar
    THEN [audio |-> EngineUpdate(audio, speed), reached |-> {"engine"}]
    ELSE [audio |-> Footstep(audio, DidMove, isJumping, deltaTime),
          reached |-> IF FootstepDue(audio, DidMove, isJumping, deltaTime)
                      THEN {"footstep"} ELSE {}]

\* playAnimation(name): the state of the animation fields after it
playAnimation(anim, name) ==
    IF ~anim.characterMixer THEN anim
    ELSE IF name \notin anim.animations \/ anim.currentAnimation = name THEN anim
    ELSE [anim EXCEPT !.currentAnimation = name]

\* the animation actions playAnimation(name) calls a method of
playAnimationUses(anim, name) ==
    IF ~anim.characterMixer THEN {}
    ELSE IF name \notin anim.animations \/ anim.currentAnimation = name THEN {}
    ELSE {name} \cup (IF anim.currentAnimation # "none" THEN {anim.currentAnimation} ELSE {})

Init ==
    \E seed \in Seeds :
        LET bs == BuildingLoop(seed, 0, citySize * citySize - 1)
            spawn == Vec(carSpawnX + 3000, characterFeetY, carSpawnZ)
        IN  /\ character = [position |-> spawn, visible |-> TRUE]
            /\ carModel = [position |-> Vec(carSpawnX, 0, carSpawnZ), rotationY |-> 0]
            /\ cameraTarget = "character"
            /\ cameraTargetOffset = Vec(0, (characterHeight * 8) \div 10, 0)
            /\ cameraAzimuthAngle = 0
            /\ cameraElevationAngle = InitialElevation
            /\ cameraPosition = OrbitPosition(spawn, Vec(0, (characterHeight * 8) \div 10, 0),
                                              0, InitialElevation)
            /\ isPointerLockActive = FALSE
            /\ keysPressed = {}
            /\ isJumping = FALSE
            /\ velocityY = 0
            /\ isInCar = FALSE
            /\ carSpeed = 0
            /\ carSteeringInput = 0
            /\ buildingColliders = [n \in DOMAIN bs |-> bs[n].collider]
            /\ sceneChildren = <<Obj("ground", 0, 0)>>
                               \o StreetLoop(seed, 0, citySize * (citySize + 1) - 1)
                               \o [n \in DOMAIN bs |-> bs[n].mesh]
            /\ coins = [c \in 1 .. numCoinsToSpawn |->
                          [position |-> PlaceCoin(seed, c - 1, 1), visible |-> TRUE]]
            /\ collectedCoinsCount = 0
            /\ respawnsCompleted = 0
            /\ respawnAllCoinsTimeout = FALSE
            /\ currentTimeOfDaySeconds = cycleDurationSeconds \div 4
            /\ generation = GenerationDone
            /\ lighting = InitialLighting
            /\ ticks = 0
            /\ mouseMoves = 0
            /\ lastWrap = [x |-> 0, z |-> 0]
            /\ lastUpdate = [ran |-> {}, rejected |-> FALSE, deltaTime |-> 0]
            /\ toggleRun = NoToggle
            /\ walk = NoWalk
            /\ loading = Loads
            /\ audio = InitialAudio
            /\ animation = NoAnimation
            /\ destroyed = FALSE
            /\ lastUse = NoUse

(***************************************************************************)
(* enterOrExitCar.                                                          *)
(***************************************************************************)
\* faulty variant of CanEnterCar: distanceToCar <= this.enterCarDistance
CanEnterCarInclusive(charPos, carPos) == DistanceLess(charPos, carPos, enterCarDistance + 1)

\* distanceToCar < this.enterCarDistance
CanEnterCar(charPos, carPos) == DistanceLess(charPos, carPos, enterCarDistance)

\* faulty variant of ExitPosition: the offset is not rotated by the car's heading
ExitPositionUnrotated(car) ==
    Vec(car.position.x + carExitOffset, characterFeetY, car.position.z)

\* carModel.position + (1.5, 0, 0) rotated by the car's quaternion, y snapped
ExitPosition(car) ==
    Vec(car.position.x + RoundDiv(carExitOffset * Cos(car.rotationY), 1000),
        characterFeetY,
        car.position.z - RoundDiv(carExitOffset * Sin(car.rotationY), 1000))

\* faulty variant of ExitCar: the speed is not reset
ExitCarKeepSpeed ==
    /\ isInCar' = FALSE
    /\ character' = [position |-> ExitPosition(carModel), visible |-> TRUE]
    /\ cameraTarget' = "character"
    /\ cameraTargetOffset' = Vec(0, (characterHeight * 8) \div 10, 0)
    /\ UNCHANGED <<carSpeed, carSteeringInput>>

\* the branch taken in the car
ExitCar ==
    /\ isInCar' = FALSE
    /\ character' = [position |-> ExitPosition(carModel), visible |-> TRUE]
    /\ cameraTarget' = "character"
    /\ cameraTargetOffset' = Vec(0, (characterHeight * 8) \div 10, 0)
    /\ carSpeed' = 0
    /\ UNCHANGED carSteeringInput

\* faulty variant of EnterCar: the character is not hidden
EnterCarVisible ==
    /\ isInCar' = TRUE
    /\ cameraTarget' = "carModel"
    /\ cameraTargetOffset' = Vec(0, 1500, 0)
    /\ carSpeed' = 0
    /\ carSteeringInput' = 0
    /\ UNCHANGED character

\* the branch taken on foot within the enter distance
EnterCar ==
    /\ isInCar' = TRUE
    /\ character' = [character EXCEPT !.visible = FALSE]
    /\ cameraTarget' = "carModel"
    /\ cameraTargetOffset' = Vec(0, 1500, 0)
    /\ carSpeed' = 0
    /\ carSteeringInput' = 0

enterOrExitCar ==
    IF isInCar
    THEN ExitCar
    ELSE IF CanEnterCar(character.position, carModel.position)
         THEN EnterCar
         ELSE UNCHANGED <<isInCar, character, cameraTarget, cameraTargetOffset,
                          carSpeed, carSteeringInput>>

(***************************************************************************)
(* setupControls: the keyboard and pointer handlers.                        *)
(***************************************************************************)
\* keydown of a movement key
PressKey(k) ==
    /\ keysPressed' = keysPressed \cup {k}
    /\ toggleRun' = NoToggle
    /\ lastUse' = NoUse
    /\ UNCHANGED <<agentVars, modeVars, cameraVars, worldVars, assetVars, destroyed, frameHistory, mouseMoves>>

KeyDown(k) == PressKey(k) /\ walk' = NoWalk

\* faulty variant of CanJump: a press in the air jumps again
CanJumpAirborne(inCar, jumping) == ~inCar

\* `!this.isInCar && event.key === ' ' && !this.isJumping`
CanJump(inCar, jumping) == ~inCar /\ ~jumping

\* keydown of ' '
KeyDownSpace ==
    /\ IF CanJump(isInCar, isJumping)
       THEN /\ isJumping' = TRUE
            /\ velocityY' = jumpStrength
            /\ audio' = PlayIfSilent(audio, "jump")
            /\ lastUse' = [NoUse EXCEPT !.sounds = Uses(audio.soundEffects, {"jump"})]
       ELSE /\ UNCHANGED <<isJumping, velocityY, audio>>
            /\ lastUse' = NoUse
    /\ toggleRun' = NoToggle
    /\ walk' = NoWalk
    /\ UNCHANGED <<character, carModel, carSpeed, carSteeringInput, modeVars, cameraVars,
                   worldVars, loading, animation, destroyed, keysPressed, frameHistory,
                   mouseMoves>>

\* keydown of 'f'
KeyDownF ==
    /\ enterOrExitCar
    /\ audio' = IF isInCar THEN StopIfPlaying(audio, "engine")
                ELSE IF CanEnterCar(character.position, carModel.position)
                     THEN PlayIfSilent(audio, "engine")
                     ELSE audio
    /\ lastUse' = [NoUse EXCEPT !.sounds =
                       IF isInCar \/ CanEnterCar(character.position, carModel.position)
                       THEN Uses(audio.soundEffects, {"engine"}) ELSE {}]
    /\ toggleRun' = [n |-> Min(2, toggleRun.n + 1),
                     before1 |-> isInCar,
                     near1 |-> DistanceLess(character.position, carModel.position,
                                            enterCarDistance),
                     before2 |-> toggleRun.before1,
                     near2 |-> toggleRun.near1]
    /\ walk' = NoWalk
    /\ UNCHANGED <<carModel, isJumping, velocityY, cameraVars, worldVars, loading,
                   animation, destroyed, keysPressed, frameHistory, mouseMoves>>

KeyUp(k) ==
    /\ keysPressed' = keysPressed \ {k}
    /\ toggleRun' = NoToggle
    /\ walk' = NoWalk
    /\ lastUse' = NoUse
    /\ UNCHANGED <<agentVars, modeVars, cameraVars, worldVars, assetVars, destroyed, frameHistory, mouseMoves>>

\* pointerlockchange: the canvas gained (TRUE) or lost (FALSE) the pointer lock
PointerLockChange(locked) ==
    /\ isPointerLockActive' = locked
    /\ toggleRun' = NoToggle
    /\ walk' = NoWalk
    /\ lastUse' = NoUse
    /\ UNCHANGED <<agentVars, modeVars, cameraPosition, cameraAzimuthAngle,
                   cameraElevationAngle, worldVars, assetVars, destroyed, keysPressed, frameHistory, mouseMoves>>

\* faulty variant of ClampElevation: no lower limit
ClampElevationUpperOnly(angle) == Min((Pi * 10) \div 22, angle)

\* Math.max(Math.PI / 36, Math.min(Math.PI / 2.2, angle))
ClampElevation(angle) == Max(Pi \div 36, Min((Pi * 10) \div 22, angle))

onMouseMove(movementX, movementY) ==
    /\ mouseMoves < MaxMouseMoves
    /\ mouseMoves' = mouseMoves + 1
    /\ IF ~isPointerLockActive
       THEN UNCHANGED <<cameraAzimuthAngle, cameraElevationAngle>>
       ELSE /\ cameraAzimuthAngle' = cameraAzimuthAngle - movementX * mouseSensitivity
            /\ cameraElevationAngle' =
                   ClampElevation(cameraElevationAngle - movementY * mouseSensitivity)
    /\ toggleRun' = NoToggle
    /\ walk' = NoWalk
    /\ lastUse' = NoUse
    /\ UNCHANGED <<agentVars, modeVars, cameraPosition, isPointerLockActive, worldVars, assetVars, destroyed,
                   keysPressed, frameHistory>>

(***************************************************************************)
(* updateCharacterMovement.                                                 *)
(***************************************************************************)
\* the candidate position of an on-foot frame
CharacterCandidate(pos, deltaTime) ==
    LET moveDistance == moveSpeed * deltaTime
        fwd == (IF Pressed("w", "arrowup") THEN 1 ELSE 0)
               - (IF Pressed("s", "arrowdown") THEN 1 ELSE 0)
        rgt == (IF Pressed("a", "arrowleft") THEN 1 ELSE 0)
               - (IF Pressed("d", "arrowright") THEN 1 ELSE 0)
        dirX == fwd * Sin(cameraAzimuthAngle) + rgt * Sin(cameraAzimuthAngle + HalfPi)
        dirZ == fwd * Cos(cameraAzimuthAngle) + rgt * Cos(cameraAzimuthAngle + HalfPi)
        \* length of the sum of the two orthogonal unit vectors, for normalize()
        len == IF fwd # 0 /\ rgt # 0 THEN 1414 ELSE 1000
    IN  Vec(pos.x + MulDiv1000(moveDistance, RoundDiv(dirX * 1000, len)),
            pos.y,
            pos.z + MulDiv1000(moveDistance, RoundDiv(dirZ * 1000, len)))

\* faulty variant of CharacterStep: the candidate is committed without the test
CharacterStepUnchecked(pos, candidate, colliders) == candidate

\* the position an on-foot frame commits: the candidate, or the prior position
CharacterStep(pos, candidate, colliders) ==
    IF ~CollidesIn(colliders, candidate) THEN candidate ELSE pos

\* faulty variant of Landed: the jump never ends
LandedNever(y) == FALSE

\* `this.character.position.y <= this.characterFeetY`
Landed(y) == y <= characterFeetY

\* result of updateCharacterMovement: [position, isJumping, velocityY], and
\* rejected: the frame had a candidate and collides(candidate) held
updateCharacterMovement(deltaTime) ==
    LET didMove == \/ Pressed("w", "arrowup") \/ Pressed("s", "arrowdown")
                   \/ Pressed("a", "arrowleft") \/ Pressed("d", "arrowright")
        moved == IF didMove
                 THEN CharacterStep(character.position,
                                    CharacterCandidate(character.position, deltaTime),
                                    buildingColliders)
                 ELSE character.position
        jumpY == moved.y + MulDiv1000(velocityY, deltaTime)
        jumpV == velocityY - gravity * deltaTime
        snapY == IF moved.y < characterFeetY /\ moved.y > -5000
                 THEN characterFeetY ELSE moved.y
        rejected == didMove /\ collides(CharacterCandidate(character.position, deltaTime))
    IN  IF isJumping
        THEN IF Landed(jumpY)
             THEN [position |-> Vec(moved.x, characterFeetY, moved.z),
                   isJumping |-> FALSE, velocityY |-> 0, rejected |-> rejected]
             ELSE [position |-> Vec(moved.x, jumpY, moved.z),
                   isJumping |-> TRUE, velocityY |-> jumpV, rejected |-> rejected]
        ELSE IF snapY < -50000
             THEN [position |-> Vec(carModel.position.x + 3000, characterFeetY + 5000,
                                    carModel.position.z),
                   isJumping |-> FALSE, velocityY |-> 0, rejected |-> rejected]
             ELSE [position |-> Vec(moved.x, snapY, moved.z),
                   isJumping |-> isJumping, velocityY |-> velocityY, rejected |-> rejected]

(***************************************************************************)
(* updateCarMovement.                                                       *)
(***************************************************************************)
AccelerationInput ==
    IF Pressed("s", "arrowdown") THEN -1
    ELSE IF Pressed("w", "arrowup") THEN 1 ELSE 0

SteeringInput ==
    IF Pressed("a", "arrowleft") THEN 1
    ELSE IF Pressed("d", "arrowright") THEN -1 ELSE 0

\* faulty variant of Accelerate: the input is applied twice
AccelerateTwice(speed, accelerationInput, deltaTime) ==
    IF accelerationInput # 0
    THEN speed + 2 * carAcceleration * accelerationInput * deltaTime
    ELSE LET slowed == IF speed > 0 THEN speed - carDeceleration * deltaTime
                       ELSE IF speed < 0 THEN speed + carDeceleration * deltaTime
                       ELSE speed
         IN  IF Abs(slowed) < 100 THEN 0 ELSE slowed

\* speed after acceleration or friction, before the clamp
Accelerate(speed, accelerationInput, deltaTime) ==
    IF accelerationInput # 0
    THEN speed + carAcceleration * accelerationInput * deltaTime
    ELSE LET slowed == IF speed > 0 THEN speed - carDeceleration * deltaTime
                       ELSE IF speed < 0 THEN speed + carDeceleration * deltaTime
                       ELSE speed
         IN  IF Abs(slowed) < 100 THEN 0 ELSE slowed

\* faulty variant of ClampSpeed: the forward limit is used for reverse too
ClampSpeedSymmetric(speed) == Max(-carMaxSpeed, Min(carMaxSpeed, speed))

\* Math.max(carReverseMaxSpeed, Math.min(carMaxSpeed, carSpeed))
ClampSpeed(speed) == Max(carReverseMaxSpeed, Min(carMaxSpeed, speed))

\* faulty variant of Steer: a car at rest turns on the spot while steering is held
SteerAtRest(rotationY, speed, steering, deltaTime) ==
    IF steering # 0
    THEN rotationY + MulDiv1000(steering * carMaxSteeringAngleRad, deltaTime)
    ELSE rotationY

\* rotation.y after the steering step
Steer(rotationY, speed, steering, deltaTime) ==
    IF speed # 0 /\ steering # 0
    THEN LET sinA == Sin(carMaxSteeringAngleRad)
             turnRadius == steering * RoundDiv(carWheelBase * 1000, sinA)
             angularVelocityOfCar == steering * RoundDiv(speed * 1000, steering * turnRadius)
         IN  rotationY + MulDiv1000(angularVelocityOfCar, deltaTime)
    ELSE rotationY

\* the candidate position of a vehicle frame
CarCandidate(pos, rotationY, speed, deltaTime) ==
    LET distance == MulDiv1000(speed, deltaTime)
    IN  Vec(pos.x + MulDiv1000(distance, Sin(rotationY)),
            pos.y,
            pos.z + MulDiv1000(distance, Cos(rotationY)))

\* faulty variant of CarStep: the candidate is committed without the test
CarStepUnchecked(pos, candidate, speed, colliders) ==
    [position |-> candidate, carSpeed |-> speed]

\* the move of a vehicle frame: accepted, or rejected with the speed zeroed
CarStep(pos, candidate, speed, colliders) ==
    IF ~CollidesIn(colliders, candidate)
    THEN [position |-> candidate, carSpeed |-> speed]
    ELSE [position |-> pos, carSpeed |-> 0]

\* result of updateCarMovement: [position, rotationY, carSpeed, carSteeringInput],
\* and rejected: collides(candidate) held
updateCarMovement(deltaTime) ==
    LET steering == SteeringInput
        speed == ClampSpeed(Accelerate(carSpeed, AccelerationInput, deltaTime))
        rotationY == Steer(carModel.rotationY, speed, steering, deltaTime)
        step == CarStep(carModel.position,
                        CarCandidate(carModel.position, rotationY, speed, deltaTime),
                        speed, buildingColliders)
    IN  [position |-> Vec(step.position.x, 0, step.position.z),
         rotationY |-> rotationY,
         carSpeed |-> step.carSpeed,
         carSteeringInput |-> steering,
         rejected |-> collides(CarCandidate(carModel.position, rotationY, speed, deltaTime))]

(***************************************************************************)
(* wrapWorld.                                                               *)
(***************************************************************************)
\* the correction of one axis
WrapOffset(coordinate) ==
    IF coordinate > chunkSize \div 2 THEN -chunkSize
    ELSE IF coordinate < -(chunkSize \div 2) THEN chunkSize
    ELSE 0

\* the filter of the scene.children loop: kinds the loop translates
SceneLoopMoves(kind) ==
    kind \notin {"character", "carModel", "sunMoonLight", "sunMoonLightTarget",
                 "coin", "lantern", "camera"}

Shift(pos, offsetX, offsetZ) == [pos EXCEPT !.x = @ + offsetX, !.z = @ + offsetZ]

\* faulty variant of ShiftBox: only min is translated
ShiftBoxMinOnly(box, offsetX, offsetZ) ==
    [min |-> Shift(box.min, offsetX, offsetZ), max |-> box.max]

\* faulty variant of ShiftBox: only max is translated
ShiftBoxMaxOnly(box, offsetX, offsetZ) ==
    [min |-> box.min, max |-> Shift(box.max, offsetX, offsetZ)]

\* faulty variant of ShiftBox: the two offsets are exchanged
ShiftBoxSwapped(box, offsetX, offsetZ) ==
    [min |-> Shift(box.min, offsetZ, offsetX), max |-> Shift(box.max, offsetZ, offsetX)]

\* b.min.x += offsetX; b.max.x += offsetX; b.min.z += offsetZ; b.max.z += offsetZ
ShiftBox(box, offsetX, offsetZ) ==
    [min |-> Shift(box.min, offsetX, offsetZ), max |-> Shift(box.max, offsetX, offsetZ)]

\* faulty variant of TimesMoved: the scene loop filters nothing out
TimesMovedTwice(kind) == 2

\* how often wrapWorld translates an entity that has its own loop or statement
\* (character, carModel, coin): once there, and once more if the scene loop
\* does not filter it out
TimesMoved(kind) == 1 + (IF SceneLoopMoves(kind) THEN 1 ELSE 0)

(***************************************************************************)
(* checkCoinCollection.                                                     *)
(***************************************************************************)
\* faulty variant of Collected: a hidden coin is collected again
CollectedHidden(coin, playerPosition) ==
    DistanceLess(playerPosition, coin.position, coinCollectionDistance)

\* `coin.visible && playerPosition.distanceTo(coin.position) < coinCollectionDistance`
Collected(coin, playerPosition) ==
    coin.visible /\ DistanceLess(playerPosition, coin.position, coinCollectionDistance)

\* faulty variant of LastCoinTaken: the respawn is never scheduled
LastCoinTakenIgnored(cs, taken) == FALSE

\* a coin was collected and `activeCoins === 0` after it
LastCoinTaken(cs, taken) ==
    taken # {} /\ \A c \in DOMAIN cs : ~cs[c].visible \/ c \in taken

(***************************************************************************)
(* animate / updateGameLogic: one frame.                                    *)
(***************************************************************************)
\* the frame, given the results of the locomotion update and of wrapWorld's test
Frame(ch, car, offsetX, offsetZ, sound) ==
    \E charPos \in {Shift(ch.position, TimesMoved("character") * offsetX,
                          TimesMoved("character") * offsetZ)},
       carPos \in {Shift(car.position, TimesMoved("carModel") * offsetX,
                         TimesMoved("carModel") * offsetZ)} :
    \E taken \in {{c \in DOMAIN coins :
                     Collected([coins[c] EXCEPT !.position =
                                   Shift(@, TimesMoved("coin") * offsetX,
                                         TimesMoved("coin") * offsetZ)],
                               IF isInCar THEN carPos ELSE charPos)}} :
        /\ lastWrap' = [x |-> offsetX, z |-> offsetZ]
        /\ isJumping' = ch.isJumping
        /\ velocityY' = ch.velocityY
        /\ carSpeed' = car.carSpeed
        /\ carSteeringInput' = car.carSteeringInput
        /\ character' = [character EXCEPT !.position = charPos]
        /\ carModel' = [position |-> carPos, rotationY |-> car.rotationY]
        /\ buildingColliders' =
               IF offsetX # 0 \/ offsetZ # 0
               THEN [n \in DOMAIN buildingColliders |->
                        ShiftBox(buildingColliders[n], offsetX, offsetZ)]
               ELSE buildingColliders
        /\ sceneChildren' =
               IF offsetX # 0 \/ offsetZ # 0
               THEN [n \in DOMAIN sceneChildren |->
                        IF SceneLoopMoves(sceneChildren[n].kind)
                        THEN Shift(sceneChildren[n], offsetX, offsetZ)
                        ELSE sceneChildren[n]]
               ELSE sceneChildren
        /\ coins' = [c \in DOMAIN coins |->
                       [position |-> Shift(coins[c].position, TimesMoved("coin") * offsetX,
                                           TimesMoved("coin") * offsetZ),
                        visible |-> coins[c].visible /\ c \notin taken]]
        /\ collectedCoinsCount' = collectedCoinsCount + Cardinality(taken)
        /\ respawnsCompleted' = respawnsCompleted
        /\ audio' = CoinSound(sound.audio, taken # {})
        /\ lastUse' =
               [sounds |-> Uses(audio.soundEffects,
                                sound.reached \cup (IF taken # {} THEN {"coin"} ELSE {})),
                mixer |-> animation.characterMixer,
                actions |-> IF isInCar THEN {}
                            ELSE playAnimationUses(animation,
                                                   IF DidMove THEN "Walking" ELSE "Idle")]
        /\ respawnAllCoinsTimeout' =
               IF LastCoinTaken(coins, taken) THEN TRUE ELSE respawnAllCoinsTimeout

animate(deltaTime) ==
    /\ ticks' = ticks + 1
    /\ currentTimeOfDaySeconds' = AdvanceTimeOfDay(currentTimeOfDaySeconds, deltaTime)
    /\ lighting' = DayNightLighting(AdvanceTimeOfDay(currentTimeOfDaySeconds, deltaTime))
    /\ \E ch \in {IF isInCar
                  THEN [position |-> character.position, isJumping |-> isJumping,
                        velocityY |-> velocityY, rejected |-> FALSE]
                  ELSE updateCharacterMovement(deltaTime)},
          car \in {IF isInCar
                   THEN updateCarMovement(deltaTime)
                   ELSE [position |-> carModel.position, rotationY |-> carModel.rotationY,
                         carSpeed |-> carSpeed, carSteeringInput |-> carSteeringInput,
                         rejected |-> FALSE]} :
        \E targetPos \in {IF cameraTarget = "carModel" THEN car.position ELSE ch.position} :
            /\ cameraPosition' = OrbitPosition(targetPos,
                                               EffectiveOffset(cameraTarget, cameraTargetOffset),
                                               cameraAzimuthAngle, cameraElevationAngle)
            /\ lastUpdate' = [ran |-> IF isInCar THEN {"car"} ELSE {"character"},
                               rejected |-> ch.rejected \/ car.rejected,
                               deltaTime |-> deltaTime]
            /\ Frame(ch, car, WrapOffset(targetPos.x), WrapOffset(targetPos.z),
                     LocomotionSound(deltaTime, car.carSpeed))
    /\ toggleRun' = NoToggle
    /\ animation' = IF isInCar THEN animation
                    ELSE playAnimation(animation, IF DidMove THEN "Walking" ELSE "Idle")
    /\ UNCHANGED <<modeVars, cameraAzimuthAngle, cameraElevationAngle, isPointerLockActive,
                   keysPressed, mouseMoves, generation, loading, destroyed>>

\* a frame, while fewer than MaxTicks frames have run
Tick(deltaTime) == ticks < MaxTicks /\ animate(deltaTime) /\ walk' = NoWalk

(***************************************************************************)
(* The program: input events and frames in any order.                       *)
(***************************************************************************)
\* frame times in ms: a short frame and a frame after the tab was suspended
DeltaTimes == {500, 100000}

\* the keys the user works in these runs
Keys == {"w", "s", "d"}

Next ==
    \/ \E k \in Keys : KeyDown(k)
    \/ \E k \in Keys : KeyUp(k)
    \/ KeyDownF
    \/ \E deltaTime \in DeltaTimes : Tick(deltaTime)

Spec == Init /\ [][Next]_vars

(***************************************************************************)
(* Pointer and jump input on foot and in the car.                           *)
(***************************************************************************)
\* pointer movements in pixels (movementX, movementY)
MouseMovements == {<<785, 0>>, <<0, 1000>>, <<0, -1000>>}

NextCamera ==
    \/ KeyDown("w")
    \/ KeyUp("w")
    \/ KeyDownSpace
    \/ KeyDownF
    \/ \E locked \in BOOLEAN : PointerLockChange(locked)
    \/ \E m \in MouseMovements : onMouseMove(m[1], m[2])
    \/ Tick(500)

SpecCamera == Init /\ [][NextCamera]_vars

(***************************************************************************)
(* Driving.  The run starts where the driver has just entered the car at    *)
(* its spawn point: the state Spec reaches from Init by keydown 'd', a      *)
(* 500 ms frame, keyup 'd' and keydown 'f' (DriveStartReached).             *)
(***************************************************************************)
DriveStart(seed) ==
    LET bs == BuildingLoop(seed, 0, citySize * citySize - 1)
        walked == Vec(carSpawnX + 3000 - moveSpeed * 500, characterFeetY, carSpawnZ)
    IN  /\ character = [position |-> walked, visible |-> FALSE]
        /\ carModel = [position |-> Vec(carSpawnX, 0, carSpawnZ), rotationY |-> 0]
        /\ cameraTarget = "carModel"
        /\ cameraTargetOffset = Vec(0, 1500, 0)
        /\ cameraAzimuthAngle = 0
        /\ cameraElevationAngle = InitialElevation
        /\ cameraPosition = OrbitPosition(walked, Vec(0, (characterHeight * 8) \div 10, 0),
                                          0, InitialElevation)
        /\ isPointerLockActive = FALSE
        /\ keysPressed = {}
        /\ isJumping = FALSE
        /\ velocityY = 0
        /\ isInCar = TRUE
        /\ carSpeed = 0
        /\ carSteeringInput = 0
        /\ buildingColliders = [n \in DOMAIN bs |-> bs[n].collider]
        /\ sceneChildren = <<Obj("ground", 0, 0)>>
                           \o StreetLoop(seed, 0, citySize * (citySize + 1) - 1)
                           \o [n \in DOMAIN bs |-> bs[n].mesh]
        /\ coins = [c \in 1 .. numCoinsToSpawn |->
                      [position |-> PlaceCoin(seed, c - 1, 1), visible |-> TRUE]]
        /\ collectedCoinsCount = 0
        /\ respawnsCompleted = 0
        /\ respawnAllCoinsTimeout = FALSE
        /\ currentTimeOfDaySeconds = cycleDurationSeconds \div 4 + 500
        /\ generation = GenerationDone
        /\ lighting = DayNightLighting(cycleDurationSeconds \div 4 + 500)

InitDrive ==
    /\ \E seed \in Seeds : DriveStart(seed)
    /\ ticks = 0
    /\ mouseMoves = 0
    /\ lastWrap = [x |-> 0, z |-> 0]
    /\ lastUpdate = [ran |-> {}, rejected |-> FALSE, deltaTime |-> 0]
    /\ toggleRun = NoToggle
    /\ walk = NoWalk
    /\ loading = Loads
    /\ audio = InitialAudio
    /\ animation = NoAnimation
    /\ destroyed = FALSE
    /\ lastUse = NoUse

\* the start of the driving runs is a state of Spec
DriveStartReached == \E seed \in Seeds : DriveStart(seed)

\* frame times in ms
DriveDeltaTimes == {4000, 20000, 60000}
DriveKeys == {"a", "s"}

\* keydown of 'f' by the driver: the driver may leave the car and walk on;
\* entering is exercised by Spec
KeyDownFInCar == isInCar /\ KeyDownF

NextDrive ==
    \/ \E k \in DriveKeys : KeyDown(k)
    \/ \E k \in DriveKeys : KeyUp(k)
    \/ KeyDownFInCar
    \/ \E deltaTime \in DriveDeltaTimes : Tick(deltaTime)

SpecDrive == InitDrive /\ [][NextDrive]_vars

(***************************************************************************)
(* Walking along one axis.  A walk starts when a single movement key goes   *)
(* down on foot with no other key held; walk records where it started, the  *)
(* colliders at that moment, the distance walked, the frames that wrapped    *)
(* and whether a frame's candidate was rejected.                            *)
(***************************************************************************)
WalkKeys == {"a", "d", "w", "s"}

KeyDownWalk(k) ==
    /\ keysPressed = {}
    /\ ~isInCar
    /\ PressKey(k)
    /\ walk' = [active |-> TRUE, key |-> k, start |-> character.position,
                colliders0 |-> buildingColliders, dist |-> 0, wraps |-> 0,
                blocked |-> FALSE]

WalkTick(deltaTime) ==
    /\ ticks < MaxTicks
    /\ animate(deltaTime)
    /\ walk' = IF walk.active
               THEN [walk EXCEPT !.dist = @ + moveSpeed * deltaTime,
                                 !.wraps = @ + (IF lastWrap'.x # 0 \/ lastWrap'.z # 0
                                                THEN 1 ELSE 0),
                                 !.blocked = @ \/ lastUpdate'.rejected]
               ELSE walk

\* frame times in ms: half a chunk, the way from the spawn point to the chunk's
\* edge, and a whole chunk
WalkDeltaTimes == {32500, 33250, 65000}

NextWalk ==
    \/ \E k \in WalkKeys : KeyDownWalk(k)
    \/ \E k \in WalkKeys : KeyUp(k)
    \/ \E deltaTime \in WalkDeltaTimes : WalkTick(deltaTime)

SpecWalk == Init /\ [][NextWalk]_vars

(***************************************************************************)
(* Entering the car and accelerating.  The run starts where the character  *)
(* has walked up to the car: the state Spec reaches from Init by keydown    *)
(* 'd', a 500 ms frame and keyup 'd' (AccelerateStartReached).  The frames  *)
(* go on beyond MaxTicks while the driver holds the forward input, the car  *)
(* is below its top speed and the last candidate was accepted;              *)
(* requestAnimationFrame keeps calling animate, so a frame with a positive  *)
(* deltaTime always comes.                                                  *)
(***************************************************************************)
AccelerateStart(seed) ==
    LET bs == BuildingLoop(seed, 0, citySize * citySize - 1)
        walked == Vec(carSpawnX + 3000 - moveSpeed * 500, characterFeetY, carSpawnZ)
    IN  /\ character = [position |-> walked, visible |-> TRUE]
        /\ carModel = [position |-> Vec(carSpawnX, 0, carSpawnZ), rotationY |-> 0]
        /\ cameraTarget = "character"
        /\ cameraTargetOffset = Vec(0, (characterHeight * 8) \div 10, 0)
        /\ cameraAzimuthAngle = 0
        /\ cameraElevationAngle = InitialElevation
        /\ cameraPosition = OrbitPosition(walked, Vec(0, (characterHeight * 8) \div 10, 0),
                                          0, InitialElevation)
        /\ isPointerLockActive = FALSE
        /\ keysPressed = {}
        /\ isJumping = FALSE
        /\ velocityY = 0
        /\ isInCar = FALSE
        /\ carSpeed = 0
        /\ carSteeringInput = 0
        /\ buildingColliders = [n \in DOMAIN bs |-> bs[n].collider]
        /\ sceneChildren = <<Obj("ground", 0, 0)>>
                           \o StreetLoop(seed, 0, citySize * (citySize + 1) - 1)
                           \o [n \in DOMAIN bs |-> bs[n].mesh]
        /\ coins = [c \in 1 .. numCoinsToSpawn |->
                      [position |-> PlaceCoin(seed, c - 1, 1), visible |-> TRUE]]
        /\ collectedCoinsCount = 0
        /\ respawnsCompleted = 0
        /\ respawnAllCoinsTimeout = FALSE
        /\ currentTimeOfDaySeconds = cycleDurationSeconds \div 4 + 500
        /\ generation = GenerationDone
        /\ lighting = DayNightLighting(cycleDurationSeconds \div 4 + 500)

InitAccelerate ==
    /\ \E seed \in Seeds : AccelerateStart(seed)
    /\ ticks = 0
    /\ mouseMoves = 0
    /\ lastWrap = [x |-> 0, z |-> 0]
    /\ lastUpdate = [ran |-> {}, rejected |-> FALSE, deltaTime |-> 0]
    /\ toggleRun = NoToggle
    /\ walk = NoWalk
    /\ loading = Loads
    /\ audio = InitialAudio
    /\ animation = NoAnimation
    /\ destroyed = FALSE
    /\ lastUse = NoUse

\* the start of the accelerating runs is a state of Spec
AccelerateStartReached == \E seed \in Seeds : AccelerateStart(seed)

AccelerateKeys == {"w", "s"}

\* frame times in ms
AccelerateDeltaTimes == {500, 1500}

\* the runs go on to another frame
FrameDue ==
    \/ ticks < MaxTicks
    \/ isInCar /\ AccelerationInput = 1 /\ carSpeed < carMaxSpeed /\ ~lastUpdate.rejected

AccelerateTick(deltaTime) ==
    /\ FrameDue
    /\ animate(deltaTime)
    /\ walk' = NoWalk

\* keydown of 'f' on foot: the character enters the car if it is near, and
\* then drives on; leaving is exercised by Spec and SpecDrive
KeyDownFOnFoot == ~isInCar /\ KeyDownF

NextAccelerate ==
    \/ \E k \in AccelerateKeys : KeyDown(k)
    \/ \E k \in AccelerateKeys : KeyUp(k)
    \/ KeyDownFOnFoot
    \/ \E deltaTime \in AccelerateDeltaTimes : AccelerateTick(deltaTime)

\* the frames are the only steps of NextAccelerate that count ticks up, so the
\* fairness condition is weak fairness of AccelerateTick
SpecAccelerate ==
    /\ InitAccelerate
    /\ [][NextAccelerate]_vars
    /\ WF_ticks(FrameDue /\ ticks' = ticks + 1)

(***************************************************************************)
(* City generation.  The run starts in the constructor, where createObjects *)
(* enters its block loop: the character and the car stand at their spawn    *)
(* points, the ground and the streets are in the scene, and no building,    *)
(* collider or coin exists.  The draws of the first block are enumerated;   *)
(* each is one of the two ends of Math.random()'s range, between which the  *)
(* bounds of a collider are monotonic in every draw.  The later blocks take *)
(* their draws from the seed.  For RaytracingWorld the run ends with the    *)
(* first block, and the variables of BasicWorld that RaytracingWorld does   *)
(* not have keep their initial values.                                      *)
(***************************************************************************)
Worlds == {"BasicWorld", "RaytracingWorld"}

GenDraws == {0, GenRandMod - 1}

InitGenerate ==
    \E seed \in Seeds, world \in Worlds :
        LET spawn == Vec(carSpawnX + 3000, characterFeetY, carSpawnZ)
        IN  /\ character = [position |-> spawn, visible |-> TRUE]
            /\ carModel = [position |-> Vec(carSpawnX, 0, carSpawnZ), rotationY |-> 0]
            /\ cameraTarget = "character"
            /\ cameraTargetOffset = Vec(0, (characterHeight * 8) \div 10, 0)
            /\ cameraAzimuthAngle = 0
            /\ cameraElevationAngle = InitialElevation
            /\ cameraPosition = Vec(0, 0, 0)
            /\ isPointerLockActive = FALSE
            /\ keysPressed = {}
            /\ isJumping = FALSE
            /\ velocityY = 0
            /\ isInCar = FALSE
            /\ carSpeed = 0
            /\ carSteeringInput = 0
            /\ buildingColliders = <<>>
            /\ sceneChildren = IF world = "BasicWorld"
                               THEN <<Obj("ground", 0, 0)>>
                                    \o StreetLoop(seed, 0, citySize * (citySize + 1) - 1)
                               ELSE <<Obj("ground", 0, 0)>>
            /\ coins = <<>>
            /\ collectedCoinsCount = 0
            /\ respawnsCompleted = 0
            /\ respawnAllCoinsTimeout = FALSE
            /\ currentTimeOfDaySeconds = cycleDurationSeconds \div 4
            /\ generation = [phase |-> "block", world |-> world, seed |-> seed,
                             numBuildingsInBlock |-> 0, k |-> 0]
            /\ lighting = InitialLighting
            /\ ticks = 0
            /\ mouseMoves = 0
            /\ lastWrap = [x |-> 0, z |-> 0]
            /\ lastUpdate = [ran |-> {}, rejected |-> FALSE, deltaTime |-> 0]
            /\ toggleRun = NoToggle
            /\ walk = NoWalk
            /\ loading = Loads
            /\ audio = InitialAudio
            /\ animation = NoAnimation
            /\ destroyed = FALSE
            /\ lastUse = NoUse

\* centre of the first block, on either axis
FirstBlockCenter(world) ==
    (IF world = "BasicWorld" THEN -cityOffset ELSE -raytracingCityOffset) + blockSize \div 2

\* const numBuildingsInBlock = Math.floor(Math.random() * 2) + 1, for the draw
\* r/GenRandMod
BeginBlock(r) ==
    /\ generation.phase = "block"
    /\ generation.numBuildingsInBlock = 0
    /\ generation' = [generation EXCEPT !.numBuildingsInBlock = (2 * r) \div GenRandMod + 1]
    /\ UNCHANGED <<agentVars, modeVars, cameraVars, buildingColliders, sceneChildren, coins,
                   collectedCoinsCount, respawnsCompleted, respawnAllCoinsTimeout, currentTimeOfDaySeconds,
                   lighting, keysPressed, frameHistory, mouseMoves, toggleRun, walk, assetVars, destroyed,
                   lastUse>>

\* one iteration of the loop over k, for the draws r[name]/GenRandMod
AddBuilding(r) ==
    /\ generation.phase = "block"
    /\ generation.k < generation.numBuildingsInBlock
    /\ DOMAIN r = IF generation.world = "BasicWorld"
                  THEN BuildingDraws ELSE RaytracingBuildingDraws
    /\ \E building \in {IF generation.world = "BasicWorld"
                         THEN BuildingDrawn(FirstBlockCenter(generation.world),
                                            FirstBlockCenter(generation.world),
                                            r, GenRandMod)
                         ELSE RaytracingBuildingDrawn(FirstBlockCenter(generation.world),
                                                      FirstBlockCenter(generation.world),
                                                      r, GenRandMod)} :
          /\ buildingColliders' = Append(buildingColliders, building.collider)
          /\ sceneChildren' = Append(sceneChildren, building.mesh)
    /\ generation' = [generation EXCEPT !.k = @ + 1]
    /\ UNCHANGED <<agentVars, modeVars, cameraVars, coins, collectedCoinsCount, respawnsCompleted,
                   respawnAllCoinsTimeout, currentTimeOfDaySeconds, lighting, keysPressed,
                   frameHistory, mouseMoves, toggleRun, walk, assetVars, destroyed,
                   lastUse>>

\* the later blocks of BasicWorld's loop, and the rest of its constructor:
\* createAndPlaceCoins, setupControls and updateCameraOrbit
FinishConstructor ==
    /\ generation.phase = "block"
    /\ generation.world = "BasicWorld"
    /\ generation.numBuildingsInBlock > 0
    /\ generation.k = generation.numBuildingsInBlock
    /\ \E bs \in {BuildingLoop(generation.seed, 1, citySize * citySize - 1)} :
          /\ buildingColliders' = buildingColliders \o [n \in DOMAIN bs |-> bs[n].collider]
          /\ sceneChildren' = sceneChildren \o [n \in DOMAIN bs |-> bs[n].mesh]
    /\ coins' = [c \in 1 .. numCoinsToSpawn |->
                    [position |-> PlaceCoin(generation.seed, c - 1, 1), visible |-> TRUE]]
    /\ cameraPosition' = OrbitPosition(character.position, cameraTargetOffset,
                                       cameraAzimuthAngle, cameraElevationAngle)
    /\ generation' = GenerationDone
    /\ UNCHANGED <<agentVars, modeVars, cameraAzimuthAngle, cameraElevationAngle,
                   isPointerLockActive, collectedCoinsCount, respawnsCompleted, respawnAllCoinsTimeout,
                   currentTimeOfDaySeconds, lighting, assetVars, destroyed, lastUse,
                   keysPressed, frameHistory,
                   mouseMoves, toggleRun, walk>>

\* the handlers and the frames exist once the constructor has returned
Constructed == generation.phase = "done"

ConstructedKeyDown(k) == Constructed /\ KeyDown(k)

ConstructedTick(deltaTime) == Constructed /\ Tick(deltaTime)

NextGenerate ==
    \/ \E r \in GenDraws : BeginBlock(r)
    \/ \E r \in [BuildingDraws -> GenDraws] \cup [RaytracingBuildingDraws -> GenDraws] :
          AddBuilding(r)
    \/ FinishConstructor
    \/ ConstructedKeyDown("w")
    \/ ConstructedTick(chunkSize \div moveSpeed)

SpecGenerate == InitGenerate /\ [][NextGenerate]_vars

(***************************************************************************)
(* The day/night cycle.  The phase that updateDayNightCycle works on is any  *)
(* value of the cycle: the run starts after frames that have brought         *)
(* currentTimeOfDaySeconds to a keyframe's time or shortly before one, and   *)
(* have set the lights for it; the constructor's own state is among the      *)
(* starts.                                                                   *)
(***************************************************************************)
\* frame times in ms: none, the shortest, a long one, and more than two cycles
DayNightDeltaTimes == {0, 1, 6000, 2 * cycleDurationSeconds + 10000}

DayNightStarts ==
    {(KeyTime(i) + cycleDurationSeconds - d) % cycleDurationSeconds :
       i \in 1 .. Len(Keyframes) - 1, d \in {0, 1, 6000, 10000}}

InitDayNight ==
    \E seed \in Seeds :
    \E bs \in {BuildingLoop(seed, 0, citySize * citySize - 1)} :
    \E city \in {[colliders |-> [n \in DOMAIN bs |-> bs[n].collider],
                   scene |-> <<Obj("ground", 0, 0)>>
                             \o StreetLoop(seed, 0, citySize * (citySize + 1) - 1)
                             \o [n \in DOMAIN bs |-> bs[n].mesh],
                   coins |-> [c \in 1 .. numCoinsToSpawn |->
                                [position |-> PlaceCoin(seed, c - 1, 1), visible |-> TRUE]]]} :
    \E time \in DayNightStarts, constructed \in BOOLEAN :
        LET spawn == Vec(carSpawnX + 3000, characterFeetY, carSpawnZ)
        IN  /\ constructed => time = cycleDurationSeconds \div 4
            /\ character = [position |-> spawn, visible |-> TRUE]
            /\ carModel = [position |-> Vec(carSpawnX, 0, carSpawnZ), rotationY |-> 0]
            /\ cameraTarget = "character"
            /\ cameraTargetOffset = Vec(0, (characterHeight * 8) \div 10, 0)
            /\ cameraAzimuthAngle = 0
            /\ cameraElevationAngle = InitialElevation
            /\ cameraPosition = OrbitPosition(spawn, Vec(0, (characterHeight * 8) \div 10, 0),
                                              0, InitialElevation)
            /\ isPointerLockActive = FALSE
            /\ keysPressed = {}
            /\ isJumping = FALSE
            /\ velocityY = 0
            /\ isInCar = FALSE
            /\ carSpeed = 0
            /\ carSteeringInput = 0
            /\ buildingColliders = city.colliders
            /\ sceneChildren = city.scene
            /\ coins = city.coins
            /\ collectedCoinsCount = 0
            /\ respawnsCompleted = 0
            /\ respawnAllCoinsTimeout = FALSE
            /\ currentTimeOfDaySeconds = time
            /\ generation = GenerationDone
            /\ lighting = IF constructed THEN InitialLighting ELSE DayNightLighting(time)
            /\ ticks = 0
            /\ mouseMoves = 0
            /\ lastWrap = [x |-> 0, z |-> 0]
            /\ lastUpdate = [ran |-> {}, rejected |-> FALSE, deltaTime |-> 0]
            /\ toggleRun = NoToggle
            /\ walk = NoWalk
            /\ loading = Loads
            /\ audio = InitialAudio
            /\ animation = NoAnimation
            /\ destroyed = FALSE
            /\ lastUse = NoUse

NextDayNight == \E deltaTime \in DayNightDeltaTimes : Tick(deltaTime)

SpecDayNight == InitDayNight /\ [][NextDayNight]_vars

(***************************************************************************)
(* The background loads call back between the handlers: the runs start on   *)
(* foot beside the car with every load pending.                             *)
(***************************************************************************)
\* onLoad callback of loadSound(name, ...)
SoundLoaded(name) ==
    /\ name \in loading \cap SoundNames
    /\ loading' = loading \ {name}
    /\ audio' = [audio EXCEPT !.soundEffects = @ \cup {name}]
    /\ lastUse' = NoUse
    /\ UNCHANGED <<agentVars, modeVars, cameraVars, worldVars, animation, destroyed,
                   keysPressed, frameHistory, mouseMoves, toggleRun, walk>>

\* a load fails: loadSound's onError callback logs the error, the model loader
\* has no error callback; the asset never arrives
LoadFailed(name) ==
    /\ name \in loading
    /\ loading' = loading \ {name}
    /\ lastUse' = NoUse
    /\ UNCHANGED <<agentVars, modeVars, cameraVars, worldVars, audio, animation, destroyed,
                   keysPressed, frameHistory, mouseMoves, toggleRun, walk>>

\* onLoad callback of loadAnimatedCharacter(carSpawnX + 3, carSpawnZ)
CharacterLoaded ==
    /\ "character" \in loading
    /\ loading' = loading \ {"character"}
    /\ character' = [character EXCEPT
                        !.position = Vec(carSpawnX + 3000, characterFeetY, carSpawnZ)]
    /\ animation' = playAnimation([characterMixer |-> TRUE, animations |-> Clips,
                                   currentAnimation |-> "none"], "Idle")
    /\ lastUse' = [sounds |-> {}, mixer |-> TRUE,
                   actions |-> playAnimationUses([characterMixer |-> TRUE,
                                                  animations |-> Clips,
                                                  currentAnimation |-> "none"], "Idle")]
    /\ UNCHANGED <<carModel, isJumping, velocityY, carSpeed, carSteeringInput, modeVars,
                   cameraVars, worldVars, audio, destroyed, keysPressed, frameHistory,
                   mouseMoves, toggleRun, walk>>

\* a sound loaded with loop = false plays to its end
SoundEnded(name) ==
    /\ name \in audio.isPlaying \ {"engine"}
    /\ audio' = [audio EXCEPT !.isPlaying = @ \ {name}]
    /\ lastUse' = NoUse
    /\ UNCHANGED <<agentVars, modeVars, cameraVars, worldVars, loading, animation,
                   destroyed, keysPressed, frameHistory, mouseMoves, toggleRun, walk>>

LoadKeys == {"w"}

\* the sounds that arrive in these runs (at any time, or never), and the load
\* that fails
ArrivingSounds == {"footstep", "engine"}
FailingLoads == {"coin"}

\* frame time in ms
LoadDeltaTimes == {500}

NextLoad ==
    \/ \E k \in LoadKeys : KeyDown(k)
    \/ \E k \in LoadKeys : KeyUp(k)
    \/ KeyDownF
    \/ \E deltaTime \in LoadDeltaTimes : Tick(deltaTime)
    \/ \E name \in ArrivingSounds : SoundLoaded(name)
    \/ \E name \in FailingLoads : LoadFailed(name)
    \/ CharacterLoaded
    \/ \E name \in SoundNames : SoundEnded(name)

SpecLoad == InitAccelerate /\ [][NextLoad]_vars

(***************************************************************************)
(* Teardown.  The runs start on foot beside the car with the sounds loaded, *)
(* either with every coin on the map or after the player collected all of   *)
(* them and walked back, the respawn timer pending.                         *)
(***************************************************************************)
\* destroy()
destroy ==
    /\ respawnAllCoinsTimeout' = FALSE
    /\ audio' = [audio EXCEPT !.isPlaying = {}, !.listenerAttached = FALSE]
    /\ destroyed' = TRUE
    /\ lastUse' = [NoUse EXCEPT !.sounds = audio.soundEffects]
    /\ toggleRun' = NoToggle
    /\ walk' = NoWalk
    /\ UNCHANGED <<agentVars, modeVars, cameraVars, buildingColliders, sceneChildren, coins,
                   collectedCoinsCount, respawnsCompleted, currentTimeOfDaySeconds, generation, lighting,
                   loading, animation, keysPressed, frameHistory, mouseMoves>>

\* the callback of the timer set by scheduleRespawnAllCoins
respawnAllCoins ==
    /\ respawnAllCoinsTimeout
    /\ coins' = [c \in DOMAIN coins |-> [coins[c] EXCEPT !.visible = TRUE]]
    /\ respawnAllCoinsTimeout' = FALSE
    /\ respawnsCompleted' = respawnsCompleted + 1
    /\ lastUse' = NoUse
    /\ toggleRun' = NoToggle
    /\ walk' = NoWalk
    /\ UNCHANGED <<agentVars, modeVars, cameraVars, buildingColliders, sceneChildren,
                   collectedCoinsCount, currentTimeOfDaySeconds, generation, lighting,
                   assetVars, destroyed, keysPressed, frameHistory, mouseMoves>>

InitDestroy ==
    /\ \E seed \in Seeds, allCollected \in BOOLEAN :
        LET bs == BuildingLoop(seed, 0, citySize * citySize - 1)
            walked == Vec(carSpawnX + 3000 - moveSpeed * 500, characterFeetY, carSpawnZ)
        IN  /\ character = [position |-> walked, visible |-> TRUE]
            /\ carModel = [position |-> Vec(carSpawnX, 0, carSpawnZ), rotationY |-> 0]
            /\ cameraTarget = "character"
            /\ cameraTargetOffset = Vec(0, (characterHeight * 8) \div 10, 0)
            /\ cameraAzimuthAngle = 0
            /\ cameraElevationAngle = InitialElevation
            /\ cameraPosition = OrbitPosition(walked, Vec(0, (characterHeight * 8) \div 10, 0),
                                              0, InitialElevation)
            /\ isPointerLockActive = FALSE
            /\ keysPressed = {}
            /\ isJumping = FALSE
            /\ velocityY = 0
            /\ isInCar = FALSE
            /\ carSpeed = 0
            /\ carSteeringInput = 0
            /\ buildingColliders = [n \in DOMAIN bs |-> bs[n].collider]
            /\ sceneChildren = <<Obj("ground", 0, 0)>>
                               \o StreetLoop(seed, 0, citySize * (citySize + 1) - 1)
                               \o [n \in DOMAIN bs |-> bs[n].mesh]
            /\ coins = [c \in 1 .. numCoinsToSpawn |->
                          [position |-> PlaceCoin(seed, c - 1, 1),
                           visible |-> ~allCollected]]
            /\ collectedCoinsCount = IF allCollected THEN numCoinsToSpawn ELSE 0
            /\ respawnsCompleted = 0
            /\ respawnAllCoinsTimeout = allCollected
            /\ currentTimeOfDaySeconds = cycleDurationSeconds \div 4 + 500
            /\ generation = GenerationDone
            /\ lighting = DayNightLighting(cycleDurationSeconds \div 4 + 500)
    /\ ticks = 0
    /\ mouseMoves = 0
    /\ lastWrap = [x |-> 0, z |-> 0]
    /\ lastUpdate = [ran |-> {}, rejected |-> FALSE, deltaTime |-> 0]
    /\ toggleRun = NoToggle
    /\ walk = NoWalk
    /\ loading = {}
    /\ audio = [InitialAudio EXCEPT !.soundEffects = SoundNames]
    /\ animation = NoAnimation
    /\ destroyed = FALSE
    /\ lastUse = NoUse

DestroyKeys == {"w"}

\* frame time in ms
DestroyDeltaTimes == {500}

NextDestroy ==
    \/ \E k \in DestroyKeys : KeyDown(k)
    \/ \E k \in DestroyKeys : KeyUp(k)
    \/ KeyDownF
    \/ \E deltaTime \in DestroyDeltaTimes : Tick(deltaTime)
    \/ respawnAllCoins
    \/ destroy

SpecDestroy == InitDestroy /\ [][NextDestroy]_vars

(***************************************************************************)
(* Strolls from the spawn point into the block north-east of it: a frame of  *)
(* 3.2 s with both keys held ends inside a building of that block, and a    *)
(* frame after the tab was suspended leaves the chunk.                      *)
(***************************************************************************)
StrollKeys == {"w", "a"}

\* frame times in ms
StrollDeltaTimes == {3200, 100000}

NextStroll ==
    \/ \E k \in StrollKeys : KeyDown(k)
    \/ \E k \in StrollKeys : KeyUp(k)
    \/ \E deltaTime \in StrollDeltaTimes : Tick(deltaTime)

SpecStroll == Init /\ [][NextStroll]_vars

(***************************************************************************)
(* Jumps.  The runs start on foot beside the car.  The jump key is pressed   *)
(* during the first MaxTicks frames; the frames go on while the character   *)
(* is in the air on foot: requestAnimationFrame keeps calling animate, so a *)
(* frame with a positive deltaTime always comes.                            *)
(***************************************************************************)
\* frame times in ms
JumpDeltaTimes == {500, 1500}

\* the runs go on to another frame
JumpFrameDue ==
    \/ ticks < MaxTicks
    \/ isJumping /\ ~isInCar

JumpTick(deltaTime) ==
    /\ JumpFrameDue
    /\ animate(deltaTime)
    /\ walk' = NoWalk

\* keydown of ' ' during the first frames
KeyDownSpaceEarly == ticks < MaxTicks /\ KeyDownSpace

NextJump ==
    \/ KeyDownSpaceEarly
    \/ KeyDownF
    \/ \E deltaTime \in JumpDeltaTimes : JumpTick(deltaTime)

\* the frames are the only steps of NextJump that count ticks up, so the
\* fairness condition is weak fairness of JumpTick
SpecJump ==
    /\ InitAccelerate
    /\ [][NextJump]_vars
    /\ WF_ticks(JumpFrameDue /\ ticks' = ticks + 1)

(***************************************************************************)
(* Collecting coins.  The runs start after the player drove the car in      *)
(* reverse down the spawn street and stepped out, with every coin on the    *)
(* map, with only the coin nearest to that place left, or with all of them   *)
(* collected and the respawn timer pending.                                  *)
(***************************************************************************)
\* where the car was parked, mm along the spawn street
coinStreetZ == -60000

\* the coin nearest to pos on the map, distances compared in dm
NearestCoin(seed, pos) ==
    LET dm2(c) == LET p == PlaceCoin(seed, c - 1, 1)
                  IN  ((p.x - pos.x) \div 100) * ((p.x - pos.x) \div 100)
                      + ((p.z - pos.z) \div 100) * ((p.z - pos.z) \div 100)
    IN  CHOOSE c \in 1 .. numCoinsToSpawn : \A d \in 1 .. numCoinsToSpawn : dm2(c) <= dm2(d)

InitCoins ==
    /\ \E seed \in Seeds, coinsLeft \in {0, 1, numCoinsToSpawn} :
        \E nearest \in {NearestCoin(seed, Vec(carSpawnX + carExitOffset, characterFeetY,
                                              coinStreetZ))} :
        LET bs == BuildingLoop(seed, 0, citySize * citySize - 1)
            parked == Vec(carSpawnX, 0, coinStreetZ)
            stepped == Vec(carSpawnX + carExitOffset, characterFeetY, coinStreetZ)
        IN  /\ character = [position |-> stepped, visible |-> TRUE]
            /\ carModel = [position |-> parked, rotationY |-> 0]
            /\ cameraTarget = "character"
            /\ cameraTargetOffset = Vec(0, (characterHeight * 8) \div 10, 0)
            /\ cameraAzimuthAngle = 0
            /\ cameraElevationAngle = InitialElevation
            /\ cameraPosition = OrbitPosition(stepped, Vec(0, (characterHeight * 8) \div 10, 0),
                                              0, InitialElevation)
            /\ isPointerLockActive = FALSE
            /\ keysPressed = {}
            /\ isJumping = FALSE
            /\ velocityY = 0
            /\ isInCar = FALSE
            /\ carSpeed = 0
            /\ carSteeringInput = 0
            /\ buildingColliders = [n \in DOMAIN bs |-> bs[n].collider]
            /\ sceneChildren = <<Obj("ground", 0, 0)>>
                               \o StreetLoop(seed, 0, citySize * (citySize + 1) - 1)
                               \o [n \in DOMAIN bs |-> bs[n].mesh]
            /\ coins = [c \in 1 .. numCoinsToSpawn |->
                          [position |-> PlaceCoin(seed, c - 1, 1),
                           visible |-> \/ coinsLeft = numCoinsToSpawn
                                       \/ coinsLeft = 1 /\ c = nearest]]
            /\ collectedCoinsCount = numCoinsToSpawn - coinsLeft
            /\ respawnsCompleted = 0
            /\ respawnAllCoinsTimeout = (coinsLeft = 0)
            /\ currentTimeOfDaySeconds = cycleDurationSeconds \div 4 + 500
            /\ generation = GenerationDone
            /\ lighting = DayNightLighting(cycleDurationSeconds \div 4 + 500)
    /\ ticks = 0
    /\ mouseMoves = 0
    /\ lastWrap = [x |-> 0, z |-> 0]
    /\ lastUpdate = [ran |-> {}, rejected |-> FALSE, deltaTime |-> 0]
    /\ toggleRun = NoToggle
    /\ walk = NoWalk
    /\ loading = {}
    /\ audio = [InitialAudio EXCEPT !.soundEffects = SoundNames]
    /\ animation = NoAnimation
    /\ destroyed = FALSE
    /\ lastUse = NoUse

CoinKeys == {"a"}
\* frame times in ms
CoinDeltaTimes == {1000, 100000}

NextCoins ==
    \/ \E k \in CoinKeys : KeyDown(k)
    \/ \E k \in CoinKeys : KeyUp(k)
    \/ KeyDownF
    \/ \E deltaTime \in CoinDeltaTimes : Tick(deltaTime)
    \/ respawnAllCoins
    \/ destroy

\* the pending timer fires unless destroy() clears it
SpecCoins == InitCoins /\ [][NextCoins]_vars /\ WF_vars(respawnAllCoins)

(***************************************************************************)
(* Parking.  The driver reverses around a corner with frames short enough   *)
(* for the car to stop beside a building, then leaves the car.              *)
(***************************************************************************)
ParkKeys == {"a", "s"}
\* frame times in ms
ParkDeltaTimes == {500, 1500}

NextPark ==
    \/ \E k \in ParkKeys : KeyDown(k)
    \/ \E k \in ParkKeys : KeyUp(k)
    \/ KeyDownFInCar
    \/ \E deltaTime \in ParkDeltaTimes : Tick(deltaTime)

SpecPark == InitDrive /\ [][NextPark]_vars

(***************************************************************************)
(* Properties.                                                              *)
(***************************************************************************)
NoWrapOffset == [x |-> 0, z |-> 0]

\* the step is a frame
IsFrame == ticks' = ticks + 1

\* the step is a press of the toggle key
IsToggle == toggleRun'.n >= 1 /\ (toggleRun.n = 2 \/ toggleRun'.n = toggleRun.n + 1)

InBounds(coordinate) == Abs(coordinate) <= chunkSize \div 2

\* C1: in a frame where wrapWorld applies a non-zero offset, every collider,
\* every scene object (ground, streets, lanterns, buildings), every coin and the
\* agent that is not the target are translated by exactly that offset, and the
\* target's position is the position that called for this offset, translated by
\* it once.
C1_RigidWrap ==
    [][IsFrame /\ lastWrap' # NoWrapOffset =>
        /\ \A n \in DOMAIN buildingColliders :
              /\ buildingColliders'[n].min
                   = Shift(buildingColliders[n].min, lastWrap'.x, lastWrap'.z)
              /\ buildingColliders'[n].max
                   = Shift(buildingColliders[n].max, lastWrap'.x, lastWrap'.z)
        /\ \A n \in DOMAIN sceneChildren :
              sceneChildren'[n] = Shift(sceneChildren[n], lastWrap'.x, lastWrap'.z)
        /\ \A c \in DOMAIN coins :
              coins'[c].position = Shift(coins[c].position, lastWrap'.x, lastWrap'.z)
        /\ isInCar => character'.position
                        = Shift(character.position, lastWrap'.x, lastWrap'.z)
        /\ ~isInCar => carModel'.position
                         = Shift(carModel.position, lastWrap'.x, lastWrap'.z)
        /\ LET target == TargetPosition(cameraTarget', character', carModel')
           IN  /\ WrapOffset(target.x - lastWrap'.x) = lastWrap'.x
               /\ WrapOffset(target.z - lastWrap'.z) = lastWrap'.z
      ]_vars

C3_CollisionStops ==
    /\ [](~collides(carModel.position))
    /\ [][IsFrame /\ lastUpdate'.ran = {"car"} /\ lastUpdate'.rejected =>
            /\ carModel'.position = carModel.position
            /\ carSpeed' = 0
         ]_vars

\* C3 amended: the car is never inside a collider, and a vehicle frame whose
\* candidate collides leaves the car's speed 0 and its position as it was, up to
\* the translation wrapWorld applies to the whole world in that frame.
C3_CollisionStopsUpToWrap ==
    /\ [](~collides(carModel.position))
    /\ [][IsFrame /\ lastUpdate'.ran = {"car"} /\ lastUpdate'.rejected =>
            /\ carModel'.position = Shift(carModel.position, lastWrap'.x, lastWrap'.z)
            /\ carSpeed' = 0
         ]_vars

\* a vehicle frame's candidate was rejected, in a frame that did not wrap
C3_Witness ==
    /\ isInCar
    /\ lastUpdate.ran = {"car"}
    /\ lastUpdate.rejected
    /\ lastWrap = NoWrapOffset
    /\ carSpeed = 0

\* C4: carReverseMaxSpeed <= carSpeed <= carMaxSpeed in every state.
C4_SpeedClamped == carReverseMaxSpeed <= carSpeed /\ carSpeed <= carMaxSpeed

\* a vehicle frame ended at the reverse limit
C4_Witness == isInCar /\ lastUpdate.ran = {"car"} /\ carSpeed = carReverseMaxSpeed

\* C5: after two toggle presses with nothing between them, the first made in
\* the car or on foot within the enter distance, isInCar is what it was before
\* the first; and after a press made in the car or on foot within the enter
\* distance, carSpeed is 0.
C5_DoubleToggle ==
    /\ toggleRun.n = 2 /\ (toggleRun.before2 \/ toggleRun.near2)
         => isInCar = toggleRun.before2
    /\ toggleRun.n >= 1 /\ (toggleRun.before1 \/ toggleRun.near1)
         => carSpeed = 0

\* two presses in a row that began in the car
C5_Witness == toggleRun.n = 2 /\ toggleRun.before2 /\ ~toggleRun.before1 /\ isInCar

\* C6: a toggle press on foot switches to the car iff the character is closer
\* to the car than enterCarDistance; otherwise it changes none of mode,
\* visibility, camera target, camera offset, speed and steering.
C6_EnterGate ==
    [][IsToggle /\ ~isInCar =>
        LET near == DistanceLess(character.position, carModel.position, enterCarDistance)
        IN  /\ isInCar' <=> near
            /\ ~near => /\ character'.visible = character.visible
                        /\ UNCHANGED <<isInCar, cameraTarget, cameraTargetOffset,
                                       carSpeed, carSteeringInput>>
      ]_vars

\* a press on foot at the enter distance or beyond
C6_Witness ==
    /\ toggleRun.n = 1
    /\ ~toggleRun.before1
    /\ ~toggleRun.near1
    /\ ~isInCar

\* C7: a toggle press in the car always switches to on foot: the character is
\* visible, stands at the car's position plus (carExitOffset, 0, 0) rotated by
\* the car's heading, at height characterFeetY; the camera target is the
\* character with the character's offset; carSpeed is 0.
C7_Exit ==
    [][IsToggle /\ isInCar =>
        /\ ~isInCar'
        /\ character'.visible
        /\ character'.position.x
             = carModel.position.x + RoundDiv(carExitOffset * Cos(carModel.rotationY), 1000)
        /\ character'.position.z
             = carModel.position.z - RoundDiv(carExitOffset * Sin(carModel.rotationY), 1000)
        /\ character'.position.y = characterFeetY
        /\ cameraTarget' = "character"
        /\ cameraTargetOffset' = Vec(0, (characterHeight * 8) \div 10, 0)
        /\ carSpeed' = 0
      ]_vars

\* the driver left a car that had turned
C7_Witness ==
    /\ toggleRun.n >= 1
    /\ toggleRun.before1
    /\ ~isInCar
    /\ carModel.rotationY % TwoPi # 0

ModeConsistent ==
    /\ cameraTarget \in {"character", "carModel"}
    /\ isInCar <=> cameraTarget = "carModel"
    /\ isInCar <=> ~character.visible

\* C8: in every state isInCar holds exactly when the camera target is the car
\* and exactly when the character is hidden, and every frame runs exactly one
\* locomotion update: the car's if isInCar, the character's otherwise.
C8_ModeConsistent ==
    /\ []ModeConsistent
    /\ [][IsFrame => lastUpdate'.ran = IF isInCar THEN {"car"} ELSE {"character"}]_vars

\* a frame ran in the car
C8_Witness == isInCar /\ lastUpdate.ran = {"car"} /\ ~character.visible

\* C9: PI/36 <= cameraElevationAngle <= PI/2.2, strictly inside (0, PI/2).
C9_ElevationClamped ==
    /\ Pi \div 36 <= cameraElevationAngle
    /\ cameraElevationAngle <= (Pi * 10) \div 22
    /\ 0 < cameraElevationAngle
    /\ cameraElevationAngle < HalfPi

\* a pointer move under pointer lock drove the elevation to its lower limit
C9_Witness ==
    /\ mouseMoves >= 1
    /\ isPointerLockActive
    /\ cameraElevationAngle = Pi \div 36

WalkAlongX == walk.key \in {"a", "d"}
WalkSign == IF walk.key \in {"a", "w"} THEN 1 ELSE -1
Along(pos) == IF WalkAlongX THEN pos.x ELSE pos.z

\* an unblocked walk of exactly chunkSize
WalkDone == walk.active /\ ~walk.blocked /\ walk.dist = chunkSize

\* exactly one frame of the walk wrapped, the character is within bounds on the
\* walk's axis and every collider has moved by chunkSize against the walk
WalkWrappedOnce ==
    /\ walk.wraps = 1
    /\ InBounds(Along(character.position))
    /\ \A n \in DOMAIN buildingColliders :
          /\ Along(buildingColliders[n].min)
               = Along(walk.colliders0[n].min) - WalkSign * chunkSize
          /\ Along(buildingColliders[n].max)
               = Along(walk.colliders0[n].max) - WalkSign * chunkSize

\* C10 as stated: an unblocked walk of chunkSize along one axis that starts
\* within [-chunkSize/2, chunkSize/2] wraps exactly once, ends within bounds and
\* moves every collider by one chunkSize against the walk.
C10_WalkOneChunk ==
    WalkDone /\ InBounds(Along(walk.start)) => WalkWrappedOnce

\* C10 amended: the same, for a walk that starts within the bounds but not on
\* the edge it walks away from.
C10_WalkOneChunkOffEdge ==
    WalkDone /\ InBounds(Along(walk.start))
             /\ Along(walk.start) # -WalkSign * (chunkSize \div 2)
      => WalkWrappedOnce

\* a walk of chunkSize from inside the bounds is complete
C10_Witness ==
    /\ WalkDone
    /\ InBounds(Along(walk.start))
    /\ Along(walk.start) # -WalkSign * (chunkSize \div 2)
    /\ walk.wraps = 1

\* a forward key is held
ForwardHeld == Pressed("w", "arrowup")

\* a forward key is held and no backward key is
ForwardOnlyHeld == Pressed("w", "arrowup") /\ ~Pressed("s", "arrowdown")

\* C11 as stated: a toggle press on foot within enterCarDistance of the car
\* leaves isInCar true and the character hidden; in every vehicle frame with a
\* forward key held and no rejected candidate the speed does not decrease and
\* grows by at most carAcceleration * deltaTime; and while a forward key stays
\* held in the car with no rejected candidate the speed eventually equals
\* carMaxSpeed.
C11_EnterAndAccelerate ==
    /\ [][IsToggle /\ ~isInCar
            /\ DistanceLess(character.position, carModel.position, enterCarDistance)
          => isInCar' /\ ~character'.visible]_vars
    /\ [][IsFrame /\ isInCar /\ ForwardHeld /\ ~lastUpdate'.rejected =>
            /\ carSpeed' >= carSpeed
            /\ carSpeed' - carSpeed <= carAcceleration * lastUpdate'.deltaTime]_vars
    /\ (isInCar /\ ForwardHeld)
          ~> (carSpeed = carMaxSpeed \/ ~(isInCar /\ ForwardHeld) \/ lastUpdate.rejected)

\* C11 amended: the same, where the forward input is a forward key held while
\* no backward key is held (the backward key overrides the forward key).
C11_EnterAndAccelerateForwardOnly ==
    /\ [][IsToggle /\ ~isInCar
            /\ DistanceLess(character.position, carModel.position, enterCarDistance)
          => isInCar' /\ ~character'.visible]_vars
    /\ [][IsFrame /\ isInCar /\ ForwardOnlyHeld /\ ~lastUpdate'.rejected =>
            /\ carSpeed' >= carSpeed
            /\ carSpeed' - carSpeed <= carAcceleration * lastUpdate'.deltaTime]_vars
    /\ (isInCar /\ ForwardOnlyHeld)
          ~> (carSpeed = carMaxSpeed \/ ~(isInCar /\ ForwardOnlyHeld)
              \/ lastUpdate.rejected)

\* the driver, who entered on foot, has held the forward key up to the top speed
C11_Witness ==
    /\ isInCar
    /\ ~character.visible
    /\ ForwardOnlyHeld
    /\ lastUpdate.ran = {"car"}
    /\ ~lastUpdate.rejected
    /\ carSpeed = carMaxSpeed

\* points to probe a list of colliders with: of every box the two extreme
\* corners (inside, the bounds being inclusive) and the points one unit beyond
\* them along x and along z
ProbePoints(colliders) ==
    UNION {{colliders[n].min, colliders[n].max,
            Shift(colliders[n].max, 1, 0), Shift(colliders[n].min, 0, -1)} :
           n \in DOMAIN colliders}

\* C12: a frame in which wrapWorld applies the offset (dx, dz) leaves the number
\* of colliders as it was, and collides(p) after the frame equals
\* collides(p - (dx, 0, dz)) before it, for every probe point p; a frame that
\* applies no offset leaves the colliders as they were.
C12_ColliderShift ==
    [][IsFrame =>
        IF lastWrap' = NoWrapOffset
        THEN buildingColliders' = buildingColliders
        ELSE /\ Len(buildingColliders') = Len(buildingColliders)
             /\ \A p \in ProbePoints(buildingColliders') :
                   CollidesIn(buildingColliders', p)
                     <=> CollidesIn(buildingColliders, Shift(p, -lastWrap'.x, -lastWrap'.z))
      ]_vars

\* a frame has wrapped, and of the probe points some collide and some do not
C12_Witness ==
    /\ ticks >= 1
    /\ lastWrap # NoWrapOffset
    /\ \E p \in ProbePoints(buildingColliders) : collides(p)
    /\ \E p \in ProbePoints(buildingColliders) : ~collides(p)

MinLeMax(box) ==
    /\ box.min.x <= box.max.x
    /\ box.min.y <= box.max.y
    /\ box.min.z <= box.max.z

\* C13: in every state every collider has min <= max on each of the three axes;
\* no step shortens the list of colliders, and only a step of the generation
\* lengthens it.
C13_MinLeMax ==
    /\ [](\A n \in DOMAIN buildingColliders : MinLeMax(buildingColliders[n]))
    /\ [][/\ Len(buildingColliders') >= Len(buildingColliders)
          /\ Len(buildingColliders') > Len(buildingColliders)
                => generation.phase = "block"]_vars

\* a frame has wrapped a city whose first block was drawn with two buildings
C13_Witness ==
    /\ Constructed
    /\ ticks >= 1
    /\ lastWrap # NoWrapOffset
    /\ \E n \in DOMAIN sceneChildren :
          /\ sceneChildren[n].kind = "building"
          /\ n < Len(sceneChildren)
          /\ sceneChildren[n + 1].kind = "building"
          /\ buildingColliders[1].min.x < buildingColliders[2].min.x

\* C14: in every state 0 <= currentTimeOfDaySeconds < cycleDurationSeconds.
C14_TimeOfDayInCycle ==
    0 <= currentTimeOfDaySeconds /\ currentTimeOfDaySeconds < cycleDurationSeconds

\* a frame longer than a whole cycle has run
C14_Witness ==
    /\ ticks >= 1
    /\ lastUpdate.deltaTime > cycleDurationSeconds
    /\ currentTimeOfDaySeconds > 0

\* C15: after a frame the keyframe pair is a pair of neighbours with
\* lower.time <= phase < upper.time and 0 <= t < 1; and if the phase is the time
\* of keyframe k (k not the last), the lower keyframe is k, t is 0, and the sun
\* intensity, the ambient intensity and the colours are k's literal values.
C15_KeyframeExact ==
    ticks >= 1 =>
        /\ lighting.prevFrame \in 1 .. Len(Keyframes) - 1
        /\ lighting.nextFrame = lighting.prevFrame + 1
        /\ KeyTime(lighting.prevFrame) <= currentTimeOfDaySeconds
        /\ currentTimeOfDaySeconds < KeyTime(lighting.nextFrame)
        /\ 0 <= lighting.tNum
        /\ lighting.tNum < lighting.tDen
        /\ \A k \in 1 .. Len(Keyframes) - 1 :
              currentTimeOfDaySeconds = KeyTime(k) =>
                  /\ lighting.prevFrame = k
                  /\ lighting.tNum = 0
                  /\ lighting.sunIntensity = Keyframes[k].sunIntensity
                  /\ lighting.ambientIntensity = Keyframes[k].ambientIntensity
                  /\ lighting.sunColor = Keyframes[k].sunColor
                  /\ lighting.ambientColor = Keyframes[k].ambientColor
                  /\ lighting.fogColor = Keyframes[k].fogColor

\* a frame has brought the phase to the time of the dusk keyframe
C15_Witness ==
    /\ ticks >= 1
    /\ lastUpdate.deltaTime > 0
    /\ currentTimeOfDaySeconds = KeyTime(5)
    /\ lighting.prevFrame = 5
    /\ lighting.sunIntensity = 600
(***************************************************************************)
(* C16: in every interleaving of frames, input events and completions of    *)
(* the background loads (loads that never complete or that fail included),  *)
(* no handler calls a method of a sound, of the animation mixer or of an    *)
(* animation action that has not been loaded, nothing unloaded is playing,  *)
(* and a frame that skips such an update still runs its locomotion update   *)
(* and advances the time of day.                                            *)
(***************************************************************************)
C16_NoUseBeforeLoad ==
    /\ [](/\ lastUse.sounds \subseteq audio.soundEffects
          /\ audio.isPlaying \subseteq audio.soundEffects
          /\ lastUse.mixer => animation.characterMixer
          /\ lastUse.actions \subseteq animation.animations
          /\ animation.currentAnimation # "none" =>
                 animation.currentAnimation \in animation.animations)
    /\ [][ticks' = ticks + 1 =>
             /\ lastUpdate'.ran = (IF isInCar THEN {"car"} ELSE {"character"})
             /\ currentTimeOfDaySeconds' =
                    AdvanceTimeOfDay(currentTimeOfDaySeconds, lastUpdate'.deltaTime)
             /\ loading' = loading
       ]_vars

\* a frame in the car skipped the engine sound, whose load is pending, after
\* the footstep sound and the character model arrived and were used
C16_Witness ==
    /\ ticks > 0
    /\ lastUpdate.ran = {"car"}
    /\ "engine" \in loading
    /\ lastUse.sounds = {}
    /\ lastUse.mixer
    /\ "footstep" \in audio.isPlaying
    /\ animation.currentAnimation = "Walking"

(***************************************************************************)
(* C17: after destroy() the world is quiescent: no coin-respawn timer is    *)
(* pending or fires, and neither an input event nor a frame changes the     *)
(* simulation state (agents, mode, camera, world).                          *)
(***************************************************************************)
C17_DestroyQuiescent ==
    /\ [](destroyed => ~respawnAllCoinsTimeout)
    /\ [][destroyed => UNCHANGED <<agentVars, modeVars, cameraVars, worldVars>>]_vars

\* the footprint of the box lies in the block with this centre, inset by `inset`
\* on all four sides
InBlock(box, blockCenterX, blockCenterZ, inset) ==
    /\ box.min.x >= blockCenterX - blockSize \div 2 + inset
    /\ box.max.x <= blockCenterX + blockSize \div 2 - inset
    /\ box.min.z >= blockCenterZ - blockSize \div 2 + inset
    /\ box.max.z <= blockCenterZ + blockSize \div 2 - inset

(***************************************************************************)
(* C18: for every outcome of the draws, a block gets 1 or 2 buildings with  *)
(* one collider each, and the footprint of every collider lies inside the   *)
(* block inset by buildingPadding on all four sides (hence on no street).   *)
(***************************************************************************)
C18_BuildingsInPaddedBlock ==
    generation.phase = "block" =>
        /\ generation.numBuildingsInBlock \in 0 .. 2
        /\ generation.k <= generation.numBuildingsInBlock
        /\ Len(buildingColliders) = generation.k
        /\ \A n \in DOMAIN buildingColliders :
              InBlock(buildingColliders[n], FirstBlockCenter(generation.world),
                      FirstBlockCenter(generation.world), buildingPadding)

(***************************************************************************)
(* C19: at the end of every frame, wrapping frames included, the camera     *)
(* position is the orbit point of the target's position at that moment, for *)
(* the current radius, azimuth and elevation and the vertical offset of the *)
(* mode.                                                                    *)
(***************************************************************************)
C19_CameraOnOrbit ==
    [][IsFrame =>
          cameraPosition' =
              OrbitPosition(TargetPosition(cameraTarget', character', carModel'),
                            EffectiveOffset(cameraTarget', cameraTargetOffset'),
                            cameraAzimuthAngle', cameraElevationAngle')
      ]_vars

(***************************************************************************)
(* C20: in a frame in the car with no acceleration input held, the speed    *)
(* moves toward zero without changing sign (its magnitude does not grow and *)
(* the new speed is zero or has the sign of the old one), and a speed of    *)
(* zero stays zero.                                                         *)
(***************************************************************************)
C20_FrictionTowardZero ==
    [][IsFrame /\ isInCar /\ AccelerationInput = 0 =>
          /\ Abs(carSpeed') <= Abs(carSpeed)
          /\ carSpeed > 0 => carSpeed' >= 0
          /\ carSpeed < 0 => carSpeed' <= 0
          /\ carSpeed = 0 => carSpeed' = 0
      ]_vars

\* the x and z of a position
Horizontal(pos) == <<pos.x, pos.z>>

\* C21 as stated: after an on-foot frame with movement input the character's
\* horizontal position is the candidate if the candidate is inside no collider
\* and the prior position otherwise, and a rejected move changes neither the
\* mode, nor the vehicle state, nor the colliders.
C21_MoveOrStay ==
    [][IsFrame /\ ~isInCar /\ DidMove =>
          \E candidate \in {CharacterCandidate(character.position, lastUpdate'.deltaTime)} :
              /\ lastUpdate'.rejected = collides(candidate)
              /\ Horizontal(character'.position) =
                     IF collides(candidate) THEN Horizontal(character.position)
                     ELSE Horizontal(candidate)
              /\ collides(candidate) =>
                     UNCHANGED <<modeVars, carModel, carSpeed, carSteeringInput,
                                 buildingColliders>>
      ]_vars

\* C21 amended: the same, up to the translation wrapWorld applies to the
\* character, the car and the colliders in that frame.
C21_MoveOrStayUpToWrap ==
    [][IsFrame /\ ~isInCar /\ DidMove =>
          \E candidate \in {CharacterCandidate(character.position, lastUpdate'.deltaTime)} :
              /\ lastUpdate'.rejected = collides(candidate)
              /\ Horizontal(character'.position) =
                     Horizontal(Shift(IF collides(candidate) THEN character.position
                                      ELSE candidate, lastWrap'.x, lastWrap'.z))
              /\ collides(candidate) =>
                     /\ UNCHANGED <<modeVars, carSpeed, carSteeringInput>>
                     /\ carModel' = [carModel EXCEPT
                                        !.position = Shift(@, lastWrap'.x, lastWrap'.z)]
                     /\ buildingColliders' =
                            [n \in DOMAIN buildingColliders |->
                                ShiftBox(buildingColliders[n], lastWrap'.x, lastWrap'.z)]
      ]_vars

\* an on-foot frame with movement input had its candidate rejected
C21_Witness ==
    /\ ~isInCar
    /\ keysPressed # {}
    /\ lastUpdate.ran = {"character"}
    /\ lastUpdate.rejected
    /\ toggleRun = NoToggle

(***************************************************************************)
(* C22: the vertical offset updateCameraOrbit uses is always the stored     *)
(* cameraTargetOffset of the current mode, so after every frame the         *)
(* camera's height is the target's height plus the orbit height plus        *)
(* cameraTargetOffset.y.                                                    *)
(***************************************************************************)
C22_StoredOffsetUsed ==
    /\ [](EffectiveOffset(cameraTarget, cameraTargetOffset) = cameraTargetOffset)
    /\ [][IsFrame =>
             cameraPosition'.y =
                 TargetPosition(cameraTarget', character', carModel').y
                 + MulDiv1000(cameraOrbitRadius, Sin(cameraElevationAngle'))
                 + cameraTargetOffset'.y
         ]_vars

\* the speed of a vehicle frame after the clamp, before the collision test
PostClampSpeed == ClampSpeed(Accelerate(carSpeed, AccelerationInput, lastUpdate'.deltaTime))

(***************************************************************************)
(* C23: in a vehicle frame the heading changes only if the speed after the  *)
(* clamp and the steering input are both non-zero; if either is zero the    *)
(* heading is unchanged, and whenever the turn radius is computed, neither  *)
(* sin(steering angle) nor the turn radius it gives is zero.                *)
(***************************************************************************)
C23_SteerGuard ==
    [][IsFrame /\ isInCar =>
          /\ carSteeringInput' = SteeringInput
          /\ carModel'.rotationY # carModel.rotationY =>
                 PostClampSpeed # 0 /\ SteeringInput # 0
          /\ PostClampSpeed = 0 \/ SteeringInput = 0 =>
                 carModel'.rotationY = carModel.rotationY
          /\ PostClampSpeed # 0 /\ SteeringInput # 0 =>
                 /\ Sin(SteeringInput * carMaxSteeringAngleRad) # 0
                 /\ RoundDiv(carWheelBase * 1000,
                             Sin(SteeringInput * carMaxSteeringAngleRad)) # 0
      ]_vars

\* a vehicle frame ran at rest with the steering held and left the heading as
\* it was
C23_Witness ==
    /\ isInCar
    /\ lastUpdate.ran = {"car"}
    /\ ~lastUpdate.rejected
    /\ carSteeringInput # 0
    /\ carSpeed = 0
    /\ carModel.rotationY = 0
    /\ toggleRun = NoToggle

(***************************************************************************)
(* C24: a press of the jump key sets velocityY to jumpStrength and          *)
(* isJumping to TRUE when the character is on foot and grounded, and        *)
(* changes neither of them nor the character's height when it is in the air *)
(* or in the car; and a character in the air on foot comes to stand at      *)
(* characterFeetY with isJumping FALSE and velocityY 0, unless it enters    *)
(* the car.                                                                 *)
(***************************************************************************)
C24_Jump ==
    /\ [][~IsFrame /\ ~IsToggle =>
             IF ~isInCar /\ ~isJumping
             THEN isJumping' /\ velocityY' = jumpStrength /\ character' = character
             ELSE UNCHANGED <<isJumping, velocityY, character>>
         ]_vars
    /\ (isJumping /\ ~isInCar) ~>
           \/ ~isJumping /\ velocityY = 0 /\ character.position.y = characterFeetY
           \/ isInCar

\* a jump started on foot has ended on the ground: the frame that ended it was
\* a frame beyond MaxTicks, which runs only for a character in the air
C24_Witness ==
    /\ ticks > MaxTicks
    /\ ~isInCar
    /\ ~isJumping
    /\ velocityY = 0
    /\ character.position.y = characterFeetY
    /\ lastUpdate.ran = {"character"}

\* C25: in every state on foot, the character's position is inside no building
\* collider.
C25_OnFootOutsideColliders == ~isInCar => ~collides(character.position)

\* C26: while the character stands at its spawn point beside the car, still at
\* its own spawn point, a press of the toggle key on foot puts the character in
\* the car.
C26_SpawnWithinRange ==
    [][/\ IsToggle
       /\ ~isInCar
       /\ character.position = Vec(carSpawnX + 3000, characterFeetY, carSpawnZ)
       /\ carModel.position = Vec(carSpawnX, 0, carSpawnZ)
       => isInCar']_vars

\* C27: the step in which the load of the character model completes changes
\* neither the character's position, nor the car and the colliders (hence the
\* character's offsets to them), nor the mode, nor the camera target.
C27_LoadKeepsState ==
    [][("character" \in loading /\ "character" \notin loading')
       => /\ character'.position = character.position
          /\ carModel' = carModel
          /\ buildingColliders' = buildingColliders
          /\ isInCar' = isInCar
          /\ cameraTarget' = cameraTarget]_vars

\* C28: in every state the character's height is at least characterFeetY (so
\* never below the fall-respawn height of -50 m), and while the character is
\* not jumping it stands at characterFeetY with vertical velocity 0.
C28_HeightInvariant ==
    /\ character.position.y >= characterFeetY
    /\ character.position.y >= -50000
    /\ ~isJumping => character.position.y = characterFeetY /\ velocityY = 0

\* the character left the car in the middle of a jump and is in the air
C28_Witness ==
    /\ ~isInCar
    /\ isJumping
    /\ character.position.y > characterFeetY
    /\ character.position.x = carModel.position.x + carExitOffset

\* the number of coins that are hidden
HiddenCoins == Cardinality({c \in DOMAIN coins : ~coins[c].visible})

\* C29: in every state collectedCoinsCount is numCoinsToSpawn times the number of
\* completed respawns plus the number of hidden coins; a step that is no respawn
\* never shows a hidden coin, and a step that is no frame never changes the
\* counter or hides a coin.
C29_CounterInvariant ==
    /\ [](collectedCoinsCount = numCoinsToSpawn * respawnsCompleted + HiddenCoins)
    /\ [][respawnsCompleted' = respawnsCompleted
           => \A c \in DOMAIN coins : ~coins[c].visible => ~coins'[c].visible]_vars
    /\ [][~IsFrame
           => /\ collectedCoinsCount' = collectedCoinsCount
              /\ \A c \in DOMAIN coins : coins[c].visible => coins'[c].visible]_vars

\* a coin was collected again after a respawn
C29_Witness ==
    /\ respawnsCompleted = 1
    /\ collectedCoinsCount = numCoinsToSpawn + 1
    /\ HiddenCoins = 1

\* C30: before destroy() the respawn timer is pending exactly when no coin is
\* visible; the timer fires only with every coin hidden and then shows every
\* coin and is no longer pending; and once no coin is visible, all coins become
\* visible again unless destroy() is called.
C30_TimerIffNoCoin ==
    /\ [](~destroyed => (respawnAllCoinsTimeout <=> HiddenCoins = numCoinsToSpawn))
    /\ [][respawnsCompleted' # respawnsCompleted
           => /\ HiddenCoins = numCoinsToSpawn
              /\ HiddenCoins' = 0
              /\ ~respawnAllCoinsTimeout']_vars
    /\ (HiddenCoins = numCoinsToSpawn /\ ~destroyed) ~> (HiddenCoins = 0 \/ destroyed)

\* a frame collected the last visible coin (its sound still plays), and the
\* timer it set has fired
C30_Witness ==
    /\ ~destroyed
    /\ "coin" \in audio.isPlaying
    /\ collectedCoinsCount = numCoinsToSpawn
    /\ respawnsCompleted = 1
    /\ HiddenCoins = 0

====
